---- MODULE Spec2Model ----
(***************************************************************************)
(* A model of KubeGuardian's remediation engine (pkg/remediation), its     *)
(* circuit breaker (pkg/circuitbreaker), its rate limiter (pkg/ratelimit), *)
(* its detector (pkg/detection), the validation of its configuration       *)
(* (pkg/config) and its controller (pkg/controller).                       *)
(*                                                                         *)
(* The engine's clock counts seconds and moves over a few instants: 0,     *)
(* one hour, one hour and a second, and the horizon.  The cluster is an    *)
(* external store: what it answers to a call is drawn at the place of the  *)
(* call.                                                                   *)
(***************************************************************************)
EXTENDS Integers, Sequences, FiniteSets, TLC

VARIABLES
    now,            \* the engine's clock (time.Now), in seconds
    config,         \* Engine.config (RemediationConfig), fixed by NewEngine
    cooldowns,      \* Engine.cooldowns: map from key to LastAction
    rateLimiter,    \* Engine.rateLimiter.limiter: map from action to bucket
    circuitBreaker, \* Engine.circuitBreaker: map from API surface to breaker
    lastExec,       \* the ExecuteAction call that has just returned to the
                    \* controller: its arguments, what it returned and what
                    \* it asked of the cluster; NoCall between two calls
    lastSuccess,    \* history: key -> time of the last successful call
    failStreak,     \* history: the pod deletions that have just failed, one
                    \* call after the other with nothing in between
    cb,             \* a CircuitBreaker on its own, built from a Config
    clock,          \* the breaker's clock (time.Now), in units of 30 seconds
    calls,          \* the goroutines calling cb.Execute: idle, or running
                    \* the operation with the generation beforeRequest gave
    cbEvent,        \* what the last call on the breaker did and returned
    admitted,       \* history: the calls admitted since cb became HalfOpen
    arl,            \* an ActionRateLimiter on its own: its defaults and its
                    \* table, from action to the address of a bucket
    buckets,        \* the RateLimiters allocated so far, by address
    allowers,       \* the goroutines calling arl.Allow, with their locals
    rlClock,        \* the limiter's clock (time.Now), in ticks
    rlLog,          \* history: per action, the times of the calls that
                    \* returned true and the number that returned false
    detector,       \* a Detector: its config (DetectionConfig) and rules
    cluster,        \* the pods and deployments the cluster lists
    detNow,         \* the detector's clock (time.Now), in units of 5 minutes
    detected,       \* what the last DetectIssues returned, when, and the
                    \* rules whose List call failed
    policyChange,   \* history: the namespace the configuration file was
                    \* changed for, and the engine's and the detector's
                    \* configuration before
    ctl,            \* Controller.Run: where it is in its loop, whether its
                    \* context is cancelled, the issues of the cycle still
                    \* to process, the issue being processed with its
                    \* actions still to execute, and what processIssue has
                    \* done for that issue, in order
    goroutines      \* the goroutines that call ExecuteAction on one Engine
                    \* at the same time: where each is in the call, with
                    \* its arguments and its result

engineVars == <<now, config, cooldowns, rateLimiter, circuitBreaker, lastExec,
                lastSuccess, failStreak>>
breakerVars == <<cb, clock, calls, cbEvent, admitted>>
limiterVars == <<arl, buckets, allowers, rlClock, rlLog>>
detectorVars == <<detector, cluster, detNow, detected, policyChange>>
controllerVars == <<ctl>>
concurrentVars == <<goroutines>>
outsideEngine ==
    <<breakerVars, limiterVars, detectorVars, controllerVars, concurrentVars>>
outsideBreaker ==
    <<engineVars, limiterVars, detectorVars, controllerVars, concurrentVars>>
outsideLimiter ==
    <<engineVars, breakerVars, detectorVars, controllerVars, concurrentVars>>
outsideDetector ==
    <<engineVars, breakerVars, limiterVars, controllerVars, concurrentVars>>
vars ==
    <<engineVars, breakerVars, limiterVars, detectorVars, controllerVars,
      concurrentVars>>

----------------------------------------------------------------------------
(* Bounds of the model *)

(* The clock's horizon, in hours *)
MaxHours == 2
(* failStreak counts up to here *)
MaxStreak == 7

(* time.Hour, in seconds *)
Hour == 3600

Instants == {0, Hour, Hour + 1, MaxHours * Hour}
None == -1

Namespaces == {"prod", "dev"}
Actions == {"restart-pod", "rollback-deployment", "scale-replicas"}
ActionNames == Actions \cup {"drain-node"}

(* The resources handed to ExecuteAction: nil, a Pod owned by a            *)
(* ReplicaSet, a Deployment, and an object of another type.                *)
NilResource == [kind |-> "nil", name |-> "", namespace |-> "", ownerRS |-> FALSE]
PodP1 == [kind |-> "Pod", name |-> "p1", namespace |-> "dev", ownerRS |-> TRUE]
DeploymentD1 == [kind |-> "Deployment", name |-> "d1", namespace |-> "prod", ownerRS |-> FALSE]
ReplicaSetR1 == [kind |-> "ReplicaSet", name |-> "rs1", namespace |-> "dev", ownerRS |-> FALSE]
Resources == {NilResource, PodP1, DeploymentD1, ReplicaSetR1}

(* The controller passes issue.Namespace, the namespace of the resource.   *)
CallNamespaces(resource) ==
    IF resource.kind = "nil" THEN Namespaces ELSE {resource.namespace}

EmptyMap == [k \in {} |-> 0]

----------------------------------------------------------------------------
(* pkg/circuitbreaker: the breaker's data.  The breaker's clock counts     *)
(* units of 30 seconds; a zero time.Time is None.                          *)

StateClosed == "Closed"
StateOpen == "Open"
StateHalfOpen == "HalfOpen"

ZeroCounts ==
    [Requests |-> 0, TotalSuccesses |-> 0, TotalFailures |-> 0,
     ConsecutiveSuccesses |-> 0, ConsecutiveFailures |-> 0]

(* 60 * time.Second, the interval and the timeout NewCircuitBreaker sets   *)
(* when the configured one is <= 0                                         *)
DefaultInterval == 2
DefaultTimeout == 2

(* DefaultReadyToTrip's threshold: ConsecutiveFailures > 5 *)
DefaultTripAbove == 5

(* DefaultReadyToTrip, tripping when the threshold is reached *)
DefaultReadyToTripAtThreshold(counts) ==
    counts.ConsecutiveFailures >= DefaultTripAbove

DefaultReadyToTrip(counts) == counts.ConsecutiveFailures > DefaultTripAbove

(* The ReadyToTrip function of a Config: nil (the default is used), or one *)
(* of the tests' policies, ConsecutiveFailures >= n.                       *)
readyToTrip(b, counts) ==
    IF b.readyToTrip = 0
    THEN DefaultReadyToTrip(counts)
    ELSE counts.ConsecutiveFailures >= b.readyToTrip

(* toNewGeneration that keeps the counts of the generation before *)
toNewGenerationKeepsCounts(b, t) ==
    [b EXCEPT !.generation = b.generation + 1,
              !.expiry = CASE b.state = StateClosed ->
                                  IF b.interval = 0 THEN None ELSE t + b.interval
                           [] b.state = StateOpen -> t + b.timeout
                           [] OTHER -> None]

toNewGeneration(b, t) ==
    [b EXCEPT !.generation = b.generation + 1,
              !.counts = ZeroCounts,
              !.expiry = CASE b.state = StateClosed ->
                                  IF b.interval = 0 THEN None ELSE t + b.interval
                           [] b.state = StateOpen -> t + b.timeout
                           [] OTHER -> None]

NewCircuitBreaker(cfg, t) ==
    toNewGeneration(
        [maxRequests |-> IF cfg.MaxRequests = 0 THEN 1 ELSE cfg.MaxRequests,
         interval |-> IF cfg.Interval <= 0 THEN DefaultInterval ELSE cfg.Interval,
         timeout |-> IF cfg.Timeout <= 0 THEN DefaultTimeout ELSE cfg.Timeout,
         readyToTrip |-> cfg.ReadyToTrip,
         fallback |-> cfg.Fallback,
         state |-> StateClosed,
         generation |-> 0,
         counts |-> ZeroCounts,
         expiry |-> None], t)

(* The goroutines that call one breaker at the same time *)
MaxCallers == 2
(* The horizon of the breaker's clock *)
MaxClock == 3
(* Execute is not called once a generation has counted this many requests *)
MaxCalls == 7

Callers == 1 .. MaxCallers

(* Config{}: every field left at its zero value *)
ZeroConfig ==
    [MaxRequests |-> 0, Interval |-> 0, Timeout |-> 0, ReadyToTrip |-> 0,
     Fallback |-> FALSE]

(* The Configs a breaker is built from: Config{}, which gets every        *)
(* default, and Configs like those of the tests, that trip at the 2nd      *)
(* failure in a row, with a timeout of 30 s and with or without a          *)
(* fallback.  ReadyToTrip 0 is nil; Fallback tells whether one is set.     *)
Configs ==
    {ZeroConfig}
    \cup [MaxRequests : {1, 2}, Interval : {2}, Timeout : {1},
          ReadyToTrip : {2}, Fallback : BOOLEAN]

Idle == [pc |-> "idle", generation |-> 0]
NoEvent == [op |-> "none"]

setState(b, state, t) ==
    IF b.state = state
    THEN b
    ELSE toNewGeneration([b EXCEPT !.state = state], t)

(* currentState, with the expiry reached at the instant of expiry itself *)
currentStateAtExpiry(b, t) ==
    CASE b.state = StateClosed /\ b.expiry # None /\ b.expiry <= t ->
             toNewGeneration(b, t)
      [] b.state = StateOpen /\ b.expiry <= t -> setState(b, StateHalfOpen, t)
      [] OTHER -> b

(* currentState returns the breaker as the call finds it: expiry.Before(now) *)
(* is expiry < now, and a zero expiry (None) is never before now in Closed.  *)
currentState(b, t) ==
    CASE b.state = StateClosed /\ b.expiry # None /\ b.expiry < t ->
             toNewGeneration(b, t)
      [] b.state = StateOpen /\ b.expiry < t -> setState(b, StateHalfOpen, t)
      [] OTHER -> b

ErrNil == "nil"
ErrCircuitBreakerOpen == "circuit breaker is open"
ErrTooManyRequests == "too many requests"

(* beforeRequest, counting the request before it looks at the state *)
beforeRequestCountsFirst(b, t) ==
    LET cur == currentState(b, t)
        counted == [cur EXCEPT !.counts.Requests = @ + 1]
    IN  IF cur.state = StateOpen
        THEN [cb |-> counted, generation |-> cur.generation,
              err |-> ErrCircuitBreakerOpen]
        ELSE IF cur.state = StateHalfOpen /\ cur.counts.Requests >= cur.maxRequests
        THEN [cb |-> counted, generation |-> cur.generation,
              err |-> ErrTooManyRequests]
        ELSE [cb |-> counted, generation |-> cur.generation, err |-> ErrNil]

(* beforeRequest, turning a call away only above maxRequests *)
beforeRequestAboveMax(b, t) ==
    LET cur == currentState(b, t)
    IN  IF cur.state = StateOpen
        THEN [cb |-> cur, generation |-> cur.generation,
              err |-> ErrCircuitBreakerOpen]
        ELSE IF cur.state = StateHalfOpen /\ cur.counts.Requests > cur.maxRequests
        THEN [cb |-> cur, generation |-> cur.generation,
              err |-> ErrTooManyRequests]
        ELSE [cb |-> [cur EXCEPT !.counts.Requests = @ + 1],
              generation |-> cur.generation, err |-> ErrNil]

(* beforeRequest: the breaker after the call, the generation and the error *)
beforeRequest(b, t) ==
    LET cur == currentState(b, t)
    IN  IF cur.state = StateOpen
        THEN [cb |-> cur, generation |-> cur.generation,
              err |-> ErrCircuitBreakerOpen]
        ELSE IF cur.state = StateHalfOpen /\ cur.counts.Requests >= cur.maxRequests
        THEN [cb |-> cur, generation |-> cur.generation,
              err |-> ErrTooManyRequests]
        ELSE [cb |-> [cur EXCEPT !.counts.Requests = @ + 1],
              generation |-> cur.generation, err |-> ErrNil]

(* onSuccess, closing only above maxRequests successes in a row *)
onSuccessAboveMax(b, state, t) ==
    LET counted == [b EXCEPT !.counts.TotalSuccesses = @ + 1,
                             !.counts.ConsecutiveSuccesses = @ + 1,
                             !.counts.ConsecutiveFailures = 0]
    IN  IF state = StateHalfOpen
           /\ counted.counts.ConsecutiveSuccesses > counted.maxRequests
        THEN setState(counted, StateClosed, t)
        ELSE counted

onSuccess(b, state, t) ==
    LET counted == [b EXCEPT !.counts.TotalSuccesses = @ + 1,
                             !.counts.ConsecutiveSuccesses = @ + 1,
                             !.counts.ConsecutiveFailures = 0]
    IN  IF state = StateHalfOpen
           /\ counted.counts.ConsecutiveSuccesses >= counted.maxRequests
        THEN setState(counted, StateClosed, t)
        ELSE counted

onFailure(b, state, t) ==
    LET counted == [b EXCEPT !.counts.TotalFailures = @ + 1,
                             !.counts.ConsecutiveFailures = @ + 1,
                             !.counts.ConsecutiveSuccesses = 0]
    IN  IF readyToTrip(counted, counted.counts)
        THEN setState(counted, StateOpen, t)
        ELSE counted

(* afterRequest that accounts the call whatever its generation *)
afterRequestOfAnyGeneration(b, before, success, t) ==
    LET cur == currentState(b, t)
    IN  IF success
        THEN onSuccess(cur, cur.state, t)
        ELSE onFailure(cur, cur.state, t)

afterRequest(b, before, success, t) ==
    LET cur == currentState(b, t)
    IN  IF cur.generation # before
        THEN cur
        ELSE IF success
        THEN onSuccess(cur, cur.state, t)
        ELSE onFailure(cur, cur.state, t)

----------------------------------------------------------------------------
(* pkg/ratelimit: the token bucket.  The limiter's clock counts ticks of   *)
(* half a second, so that a bucket is also asked between two whole tokens. *)

(* Ticks in a second *)
TicksPerSecond == 2
(* The horizon of the limiter's clock, in ticks *)
MaxTicks == 3
(* The goroutines that call one ActionRateLimiter at the same time *)
MaxAllowers == 2
(* Allow is not called once this many calls have been made *)
MaxAllows == 4

Allowers == 1 .. MaxAllowers
AllowActions == {"restart-pod", "scale-replicas"}

(* A nil *RateLimiter *)
NilLimiter == 0

Min(a, b) == IF a < b THEN a ELSE b

(* NewRateLimiter(capacity, refillRate) at time t *)
NewRateLimiter(capacity, refillRate, t) ==
    [tokens |-> capacity, capacity |-> capacity, refillRate |-> refillRate,
     lastRefill |-> t]

(* int(elapsed.Seconds() * float64(refillRate)), for elapsed >= 0 and      *)
(* refillRate >= 0                                                         *)
tokensToAdd(rl, t) == ((t - rl.lastRefill) * rl.refillRate) \div TicksPerSecond

(* refill, without the clamp to capacity *)
refillUnclamped(rl, t) ==
    IF tokensToAdd(rl, t) > 0
    THEN [rl EXCEPT !.tokens = rl.tokens + tokensToAdd(rl, t),
                    !.lastRefill = t]
    ELSE rl

(* refill that moves lastRefill at every call *)
refillRestartsClock(rl, t) ==
    [rl EXCEPT !.tokens = Min(rl.tokens + tokensToAdd(rl, t), rl.capacity),
               !.lastRefill = t]

refill(rl, t) ==
    IF tokensToAdd(rl, t) > 0
    THEN [rl EXCEPT !.tokens = Min(rl.tokens + tokensToAdd(rl, t), rl.capacity),
                    !.lastRefill = t]
    ELSE rl

(* RateLimiter.Allow: the bucket after the call, and what it returns *)
Allow(rl, t) ==
    LET filled == refill(rl, t)
    IN  IF filled.tokens > 0
        THEN [rl |-> [filled EXCEPT !.tokens = @ - 1], ok |-> TRUE]
        ELSE [rl |-> filled, ok |-> FALSE]

(* NewActionRateLimiter(defaultRate, defaultCap) *)
NewActionRateLimiter(defaultRate, defaultCap) ==
    [limiter |-> EmptyMap, defaultRate |-> defaultRate, defaultCap |-> defaultCap]

(* The limiters that are built: rates of 0, 1 and 2 tokens a second,       *)
(* capacities of 0, 1 and 2 tokens                                         *)
ActionRateLimiters ==
    {NewActionRateLimiter(rate, cap) : rate \in 0 .. 2, cap \in 0 .. 2}

IdleAllower == [pc |-> "idle", action |-> "", limiter |-> NilLimiter]
EmptyLog == [a \in AllowActions |-> [allowed |-> <<>>, denied |-> 0]]

----------------------------------------------------------------------------
(* pkg/detection: the detector's data.  The detector's clock counts in     *)
(* units of five minutes.  A pointer of the Kubernetes API is a record     *)
(* with a field nil.                                                       *)

(* The clock's horizon *)
MaxDetClock == 2
(* The highest RestartCount of a container status *)
MaxRestarts == 4

(* 5 * time.Minute and 10 * time.Minute *)
FiveMinutes == 1
TenMinutes == 2

(* DefaultConfig's thresholds: crash loop, failed deployment, CPU and      *)
(* memory per cent, OOM kills                                              *)
DefaultCrashLoopThreshold == 3
DefaultFailedDeploymentThreshold == 5
DefaultCPUThresholdPercent == 80
DefaultMemoryThresholdPercent == 85
DefaultOOMKillThreshold == 2

(* The entries a namespace may have in DetectionConfig.Namespaces.  An     *)
(* entry that leaves enabled or checkDuration out has the zero value       *)
(* there; Validate wants the limits and thresholds to be at least 1.       *)
CrashLoopOff == [RestartLimit |-> 1, CheckDuration |-> 0, Enabled |-> FALSE]
CrashLoopAtOnce == [RestartLimit |-> 1, CheckDuration |-> 0, Enabled |-> TRUE]
CrashLoopLate == [RestartLimit |-> 4, CheckDuration |-> TenMinutes, Enabled |-> TRUE]
DeploymentOff == [FailureThreshold |-> 1, CheckDuration |-> 0, Enabled |-> FALSE]
DeploymentOn == [FailureThreshold |-> 1, CheckDuration |-> FiveMinutes, Enabled |-> TRUE]
CPUOn == [ThresholdPercent |-> 2, CheckDuration |-> 0, Enabled |-> TRUE]
MemoryOff == [ThresholdPercent |-> 80, CheckDuration |-> 0, OOMKillThreshold |-> 1,
              Enabled |-> FALSE]
MemoryAtOnce == [ThresholdPercent |-> 80, CheckDuration |-> 0, OOMKillThreshold |-> 1,
                 Enabled |-> TRUE]
MemoryLate == [ThresholdPercent |-> 80, CheckDuration |-> FiveMinutes,
               OOMKillThreshold |-> 3, Enabled |-> TRUE]
NamespaceConfig(crashLoop, deployment, cpu, memory) ==
    [CrashLoop |-> crashLoop, Deployment |-> deployment, CPU |-> cpu, Memory |-> memory]
NamespaceConfigs ==
    {NamespaceConfig(CrashLoopOff, DeploymentOff, CPUOn, MemoryOff),
     NamespaceConfig(CrashLoopAtOnce, DeploymentOn, CPUOn, MemoryAtOnce),
     NamespaceConfig(CrashLoopLate, DeploymentOn, CPUOn, MemoryLate),
     NamespaceConfig(CrashLoopAtOnce, DeploymentOff, CPUOn, MemoryOff),
     NamespaceConfig(CrashLoopOff, DeploymentOn, CPUOn, MemoryAtOnce)}

(* The DetectionConfig NewController makes of the file's detection part,   *)
(* with these entries for the namespaces                                   *)
DetectionConfig(namespaces) ==
    [CrashLoopThreshold |-> DefaultCrashLoopThreshold,
     FailedDeploymentThreshold |-> DefaultFailedDeploymentThreshold,
     CPUThresholdPercent |-> DefaultCPUThresholdPercent,
     MemoryThresholdPercent |-> DefaultMemoryThresholdPercent,
     OOMKillThreshold |-> DefaultOOMKillThreshold,
     Namespaces |-> namespaces]

(* The configurations the detector is built with: "prod" may have an entry *)
(* of its own, "dev" has none.                                             *)
DetectionConfigs ==
    {DetectionConfig(EmptyMap)}
    \cup {DetectionConfig([n \in {"prod"} |-> c]) : c \in NamespaceConfigs}

(* Detector.GetNamespaceConfig with the defaults filled into an entry's    *)
(* zero values                                                             *)
DetectorGetNamespaceConfigMerged(d, namespace) ==
    LET defaults == [CrashLoop |-> [RestartLimit |-> d.config.CrashLoopThreshold,
                                    CheckDuration |-> FiveMinutes, Enabled |-> TRUE],
                     Deployment |-> [FailureThreshold |-> d.config.FailedDeploymentThreshold,
                                     CheckDuration |-> TenMinutes, Enabled |-> TRUE],
                     CPU |-> [ThresholdPercent |-> d.config.CPUThresholdPercent,
                              CheckDuration |-> FiveMinutes, Enabled |-> TRUE],
                     Memory |-> [ThresholdPercent |-> d.config.MemoryThresholdPercent,
                                 CheckDuration |-> FiveMinutes,
                                 OOMKillThreshold |-> d.config.OOMKillThreshold,
                                 Enabled |-> TRUE]]
    IN  IF namespace \in DOMAIN d.config.Namespaces
        THEN [dim \in DOMAIN defaults |->
                 [d.config.Namespaces[namespace][dim] EXCEPT
                      !.Enabled = TRUE,
                      !.CheckDuration = IF @ = 0 THEN defaults[dim].CheckDuration ELSE @]]
        ELSE defaults

(* Detector.GetNamespaceConfig *)
DetectorGetNamespaceConfig(d, namespace) ==
    IF namespace \in DOMAIN d.config.Namespaces
    THEN d.config.Namespaces[namespace]
    ELSE [CrashLoop |-> [RestartLimit |-> d.config.CrashLoopThreshold,
                         CheckDuration |-> FiveMinutes, Enabled |-> TRUE],
          Deployment |-> [FailureThreshold |-> d.config.FailedDeploymentThreshold,
                          CheckDuration |-> TenMinutes, Enabled |-> TRUE],
          CPU |-> [ThresholdPercent |-> d.config.CPUThresholdPercent,
                   CheckDuration |-> FiveMinutes, Enabled |-> TRUE],
          Memory |-> [ThresholdPercent |-> d.config.MemoryThresholdPercent,
                      CheckDuration |-> FiveMinutes,
                      OOMKillThreshold |-> d.config.OOMKillThreshold,
                      Enabled |-> TRUE]]

(* NewDetector(client, config) *)
NewDetector(cfg) == [config |-> cfg, rules |-> <<>>]

(* The rules LoadRules sets *)
BuiltInRules ==
    <<[Name |-> "crash-loop-backoff",
       Description |-> "Detect pods in CrashLoopBackOff state",
       Enabled |-> TRUE, Actions |-> <<"restart-pod">>, Severity |-> "high"],
      [Name |-> "failed-deployment",
       Description |-> "Detect failed deployments",
       Enabled |-> TRUE, Actions |-> <<"rollback-deployment">>, Severity |-> "high"],
      [Name |-> "high-cpu-usage",
       Description |-> "Detect high CPU usage",
       Enabled |-> TRUE, Actions |-> <<"scale-replicas">>, Severity |-> "medium"],
      [Name |-> "high-memory-usage",
       Description |-> "Detect high memory usage",
       Enabled |-> TRUE, Actions |-> <<"restart-pod">>, Severity |-> "high"],
      [Name |-> "oom-kill-detected",
       Description |-> "Detect OOMKilled pods",
       Enabled |-> TRUE, Actions |-> <<"restart-pod", "scale-replicas">>,
       Severity |-> "critical"]>>

RuleNames == {BuiltInRules[i].Name : i \in DOMAIN BuiltInRules}

(* The container states of the API: a nil pointer, or the state's reason   *)
(* and, of a terminated container, the time it finished                    *)
NilState == [nil |-> TRUE, Reason |-> "", FinishedAt |-> 0]
Waiting(reason) == [nil |-> FALSE, Reason |-> reason, FinishedAt |-> 0]
Terminated(reason, finishedAt) ==
    [nil |-> FALSE, Reason |-> reason, FinishedAt |-> finishedAt]

(* The current states a container is listed with: running, waiting or      *)
(* terminated                                                              *)
CurrentStates ==
    {[Waiting |-> NilState, Terminated |-> NilState]}
    \cup {[Waiting |-> Waiting(reason), Terminated |-> NilState]
          : reason \in {"CrashLoopBackOff", "ContainerCreating"}}
    \cup {[Waiting |-> NilState, Terminated |-> Terminated(reason, 0)]
          : reason \in {"OOMKilled", "Error"}}

(* The restart counts of the container statuses: none, one, the default    *)
(* crash-loop threshold, and the most                                      *)
RestartCounts == {0, 1, DefaultCrashLoopThreshold, MaxRestarts}

(* corev1.ContainerStatus: State, LastTerminationState and RestartCount *)
ContainerStatuses ==
    {[State |-> state,
      LastTerminationState |-> [Terminated |-> last],
      RestartCount |-> restartCount]
     : state \in CurrentStates,
       last \in {NilState} \cup {Terminated("Error", t) : t \in 0 .. MaxDetClock},
       restartCount \in RestartCounts}

(* A container in CrashLoopBackOff for as long as the clock has run *)
CrashLooping ==
    [State |-> [Waiting |-> Waiting("CrashLoopBackOff"), Terminated |-> NilState],
     LastTerminationState |-> [Terminated |-> Terminated("Error", 0)],
     RestartCount |-> MaxRestarts]

(* A container the kernel has just killed again *)
OOMKilledAgain ==
    [State |-> [Waiting |-> NilState, Terminated |-> Terminated("OOMKilled", 0)],
     LastTerminationState |-> [Terminated |-> Terminated("OOMKilled", 0)],
     RestartCount |-> MaxRestarts]

Pod(namespace, name, containerStatuses) ==
    [Namespace |-> namespace, Name |-> name,
     Status |-> [ContainerStatuses |-> containerStatuses]]

(* appsv1.DeploymentCondition *)
Condition(type, status, reason, lastTransitionTime) ==
    [Type |-> type, Status |-> status, Reason |-> reason,
     LastTransitionTime |-> lastTransitionTime]

(* The conditions a Deployment is listed with: none, progressing, and not  *)
(* progressing since the clock began, its deadline exceeded                *)
DeploymentConditions ==
    {<<>>,
     <<Condition("Available", "True", "MinimumReplicasAvailable", 0),
       Condition("Progressing", "True", "NewReplicaSetAvailable", 0)>>,
     <<Condition("Available", "False", "MinimumReplicasUnavailable", 0),
       Condition("Progressing", "False", "ProgressDeadlineExceeded", 0)>>}

Deployment(namespace, name, conditions) ==
    [Namespace |-> namespace, Name |-> name, Status |-> [Conditions |-> conditions]]

(* What the cluster lists: in "dev" a pod with two containers, one in a    *)
(* crash loop and one killed for memory; in "prod" a pod with one          *)
(* container and a deployment                                              *)
Clusters ==
    {[pods |-> <<Pod("dev", "p1", <<CrashLooping, OOMKilledAgain>>),
                 Pod("prod", "p2", <<containerStatus>>)>>,
      deployments |-> <<Deployment("prod", "d1", conditions)>>]
     : containerStatus \in ContainerStatuses, conditions \in DeploymentConditions}

(* The rules whose List call fails in one DetectIssues: none, one, or all  *)
ListFailures == {{}, RuleNames} \cup {{name} : name \in RuleNames}

RECURSIVE Concat(_)
Concat(seqs) == IF seqs = <<>> THEN <<>> ELSE Head(seqs) \o Concat(Tail(seqs))

(* meetsDurationCondition with a nil termination record let through *)
meetsDurationConditionNilPasses(terminated, duration, t) ==
    terminated.nil \/ t - terminated.FinishedAt >= duration

(* meetsDurationCondition(terminated, duration); the duration is never nil *)
meetsDurationCondition(terminated, duration, t) ==
    IF terminated.nil THEN FALSE
    ELSE t - terminated.FinishedAt >= duration

(* The Issue a rule makes of a Pod or a Deployment; the description ends   *)
(* with the numbers formatted into it                                      *)
Issue(rule, numbers, object, kind, t) ==
    [RuleName |-> rule.Name, Description |-> <<rule.Description, numbers>>,
     Severity |-> rule.Severity, Namespace |-> object.Namespace,
     Name |-> object.Name, Kind |-> kind, Actions |-> rule.Actions,
     DetectedAt |-> t]

(* The issues of a rule that looks at every container of every pod the     *)
(* namespace's configuration does not disable                              *)
detectCrashLoopBackOff(d, rule, pods, t) ==
    Concat([i \in DOMAIN pods |->
        LET pod == pods[i]
            nsConfig == DetectorGetNamespaceConfig(d, pod.Namespace)
        IN  IF ~nsConfig.CrashLoop.Enabled THEN <<>>
            ELSE Concat([j \in DOMAIN pod.Status.ContainerStatuses |->
                LET containerStatus == pod.Status.ContainerStatuses[j]
                IN  IF /\ ~containerStatus.State.Waiting.nil
                       /\ containerStatus.State.Waiting.Reason = "CrashLoopBackOff"
                       /\ containerStatus.RestartCount >= nsConfig.CrashLoop.RestartLimit
                       /\ meetsDurationCondition(
                              containerStatus.LastTerminationState.Terminated,
                              nsConfig.CrashLoop.CheckDuration, t)
                    THEN <<Issue(rule, <<nsConfig.CrashLoop.RestartLimit>>, pod, "Pod", t)>>
                    ELSE <<>>])])

detectFailedDeployment(d, rule, deployments, t) ==
    Concat([i \in DOMAIN deployments |->
        LET deployment == deployments[i]
            nsConfig == DetectorGetNamespaceConfig(d, deployment.Namespace)
        IN  IF ~nsConfig.Deployment.Enabled THEN <<>>
            ELSE Concat([j \in DOMAIN deployment.Status.Conditions |->
                LET condition == deployment.Status.Conditions[j]
                IN  IF /\ condition.Type = "Progressing"
                       /\ condition.Status = "False"
                       /\ condition.Reason = "ProgressDeadlineExceeded"
                       /\ meetsDurationCondition(NilState,
                                                 nsConfig.Deployment.CheckDuration, t)
                    THEN <<Issue(rule, <<nsConfig.Deployment.FailureThreshold>>,
                                 deployment, "Deployment", t)>>
                    ELSE <<>>])])

detectHighCPUUsage(d, rule, pods, t) ==
    Concat([i \in DOMAIN pods |->
        LET pod == pods[i]
            nsConfig == DetectorGetNamespaceConfig(d, pod.Namespace)
        IN  IF ~nsConfig.CPU.Enabled THEN <<>>
            ELSE Concat([j \in DOMAIN pod.Status.ContainerStatuses |->
                LET containerStatus == pod.Status.ContainerStatuses[j]
                IN  IF /\ containerStatus.RestartCount > nsConfig.CPU.ThresholdPercent
                       /\ meetsDurationCondition(NilState, nsConfig.CPU.CheckDuration, t)
                    THEN <<Issue(rule, <<nsConfig.CPU.ThresholdPercent>>, pod, "Pod", t)>>
                    ELSE <<>>])])

detectHighMemoryUsage(d, rule, pods, t) ==
    Concat([i \in DOMAIN pods |->
        LET pod == pods[i]
            nsConfig == DetectorGetNamespaceConfig(d, pod.Namespace)
        IN  IF ~nsConfig.Memory.Enabled THEN <<>>
            ELSE Concat([j \in DOMAIN pod.Status.ContainerStatuses |->
                LET containerStatus == pod.Status.ContainerStatuses[j]
                IN  IF /\ \/ containerStatus.RestartCount > 3
                          \/ /\ ~containerStatus.State.Waiting.nil
                             /\ containerStatus.State.Waiting.Reason
                                    \in {"CrashLoopBackOff", "ContainerCreating"}
                       /\ meetsDurationCondition(
                              containerStatus.LastTerminationState.Terminated,
                              nsConfig.Memory.CheckDuration, t)
                    THEN <<Issue(rule, <<nsConfig.Memory.ThresholdPercent>>, pod, "Pod", t)>>
                    ELSE <<>>])])

(* detectOOMKilled behind the duration gate of the other rules *)
detectOOMKilledGated(d, rule, pods, t) ==
    Concat([i \in DOMAIN pods |->
        LET pod == pods[i]
            nsConfig == DetectorGetNamespaceConfig(d, pod.Namespace)
        IN  IF ~nsConfig.Memory.Enabled THEN <<>>
            ELSE Concat([j \in DOMAIN pod.Status.ContainerStatuses |->
                LET containerStatus == pod.Status.ContainerStatuses[j]
                    oomKillCount == IF containerStatus.RestartCount > 0
                                    THEN containerStatus.RestartCount ELSE 0
                IN  IF /\ ~containerStatus.State.Terminated.nil
                       /\ containerStatus.State.Terminated.Reason = "OOMKilled"
                       /\ oomKillCount >= nsConfig.Memory.OOMKillThreshold
                       /\ meetsDurationCondition(
                              containerStatus.LastTerminationState.Terminated,
                              nsConfig.Memory.CheckDuration, t)
                    THEN <<Issue(rule, <<oomKillCount, nsConfig.Memory.OOMKillThreshold>>,
                                 pod, "Pod", t)>>
                    ELSE <<>>])])

detectOOMKilled(d, rule, pods, t) ==
    Concat([i \in DOMAIN pods |->
        LET pod == pods[i]
            nsConfig == DetectorGetNamespaceConfig(d, pod.Namespace)
        IN  IF ~nsConfig.Memory.Enabled THEN <<>>
            ELSE Concat([j \in DOMAIN pod.Status.ContainerStatuses |->
                LET containerStatus == pod.Status.ContainerStatuses[j]
                    oomKillCount == IF containerStatus.RestartCount > 0
                                    THEN containerStatus.RestartCount ELSE 0
                IN  IF /\ ~containerStatus.State.Terminated.nil
                       /\ containerStatus.State.Terminated.Reason = "OOMKilled"
                       /\ oomKillCount >= nsConfig.Memory.OOMKillThreshold
                    THEN <<Issue(rule, <<oomKillCount, nsConfig.Memory.OOMKillThreshold>>,
                                 pod, "Pod", t)>>
                    ELSE <<>>])])

(* evaluateRule: the rule's issues when its List call succeeds *)
evaluateRule(d, rule, listed, t) ==
    CASE rule.Name = "crash-loop-backoff" -> detectCrashLoopBackOff(d, rule, listed.pods, t)
      [] rule.Name = "failed-deployment" ->
             detectFailedDeployment(d, rule, listed.deployments, t)
      [] rule.Name = "high-cpu-usage" -> detectHighCPUUsage(d, rule, listed.pods, t)
      [] rule.Name = "high-memory-usage" -> detectHighMemoryUsage(d, rule, listed.pods, t)
      [] rule.Name = "oom-kill-detected" -> detectOOMKilled(d, rule, listed.pods, t)

(* DetectIssues giving up at the first rule whose List call fails *)
detectIssuesUntilError(d, listed, failed, t) ==
    Concat([i \in DOMAIN d.rules |->
        IF \/ ~d.rules[i].Enabled
           \/ \E j \in 1 .. i : d.rules[j].Enabled /\ d.rules[j].Name \in failed
        THEN <<>>
        ELSE evaluateRule(d, d.rules[i], listed, t)])

(* The issues DetectIssues returns, its error being nil: those of the      *)
(* enabled rules, one rule after the other, a rule whose List call failed  *)
(* giving none                                                             *)
detectIssues(d, listed, failed, t) ==
    Concat([i \in DOMAIN d.rules |->
        IF ~d.rules[i].Enabled \/ d.rules[i].Name \in failed THEN <<>>
        ELSE evaluateRule(d, d.rules[i], listed, t)])

(* The rules DetectIssues has evaluated: the enabled ones whose List call   *)
(* did not fail                                                            *)
evaluated(d, failed) ==
    {d.rules[i].Name : i \in {j \in DOMAIN d.rules : d.rules[j].Enabled}} \ failed

NoDetection ==
    [at |-> None, failed |-> {}, evaluated |-> {}, issues |-> <<>>, err |-> ""]
NoChange == [namespace |-> "", config |-> EmptyMap, detector |-> EmptyMap]

----------------------------------------------------------------------------
(* pkg/remediation: the engine *)

Surfaces == {"pods", "deployments", "replicasets"}

(* The breakers NewEngine builds: MaxRequests 5 for pods and 3 for the     *)
(* others, Interval 60 s, Timeout 30 s.                                    *)
EngineBreakerConfig(surface) ==
    [MaxRequests |-> IF surface = "pods" THEN 5 ELSE 3,
     Interval |-> 2, Timeout |-> 1, ReadyToTrip |-> 0, Fallback |-> FALSE]

(* The entries a namespace may have: one that sets nothing (every field    *)
(* keeps its zero value), and entries that enable remediation, with no     *)
(* cooldown or with one of an hour.                                        *)
NamespaceRemediationConfigs ==
    {[Enabled |-> FALSE, AutoRollbackEnabled |-> FALSE,
      AutoScaleEnabled |-> FALSE, CooldownSeconds |-> 0]}
    \cup [Enabled : {TRUE}, AutoRollbackEnabled : {TRUE},
          AutoScaleEnabled : {TRUE}, CooldownSeconds : {0, Hour}]

(* The configurations the engine is built with: the global cooldown is one *)
(* that Validate accepts (>= 1); "prod" may have an entry of its own,      *)
(* "dev" has none.                                                         *)
RemediationConfigs ==
    [Enabled : BOOLEAN, DryRun : BOOLEAN, AutoRollbackEnabled : BOOLEAN,
     AutoScaleEnabled : BOOLEAN, CooldownSeconds : {1, Hour, 2 * Hour},
     Namespaces : {EmptyMap} \cup
                  {[n \in {"prod"} |-> c] : c \in NamespaceRemediationConfigs}]

(* Config.Validate on what the engine is configured with: Valid is that   *)
(* no check has an error.  The global cooldown must not be negative nor 0; *)
(* the cooldown of a namespace's entry must not be negative.  (The checks  *)
(* of the other sections are on fields the engine does not get.)           *)
Validate(c) ==
    LET validateRemediation ==
            /\ ~(c.CooldownSeconds < 0)
            /\ ~(c.CooldownSeconds = 0)
        validateNamespaces ==
            \A namespace \in DOMAIN c.Namespaces :
                ~(c.Namespaces[namespace].CooldownSeconds < 0)
    IN  validateRemediation /\ validateNamespaces

(* GetNamespaceConfig that, on a miss, takes the entry of a namespace that  *)
(* has one                                                                 *)
GetNamespaceConfigBorrowed(namespace) ==
    IF namespace \in DOMAIN config.Namespaces
    THEN config.Namespaces[namespace]
    ELSE IF DOMAIN config.Namespaces # {}
    THEN config.Namespaces[CHOOSE n \in DOMAIN config.Namespaces : TRUE]
    ELSE [Enabled |-> config.Enabled,
          AutoRollbackEnabled |-> config.AutoRollbackEnabled,
          AutoScaleEnabled |-> config.AutoScaleEnabled,
          CooldownSeconds |-> config.CooldownSeconds]

GetNamespaceConfigGlobalOnly(namespace) ==
    [Enabled |-> config.Enabled,
     AutoRollbackEnabled |-> config.AutoRollbackEnabled,
     AutoScaleEnabled |-> config.AutoScaleEnabled,
     CooldownSeconds |-> config.CooldownSeconds]

GetNamespaceConfig(namespace) ==
    IF namespace \in DOMAIN config.Namespaces
    THEN config.Namespaces[namespace]
    ELSE [Enabled |-> config.Enabled,
          AutoRollbackEnabled |-> config.AutoRollbackEnabled,
          AutoScaleEnabled |-> config.AutoScaleEnabled,
          CooldownSeconds |-> config.CooldownSeconds]

getResourceName(resource) ==
    IF resource.kind = "nil" THEN "unknown" ELSE resource.name

(* isInCooldown that takes an entry of this very instant for none *)
isInCooldownSinceEarlier(cooldownKey, cooldownSeconds) ==
    IF cooldownSeconds <= 0 THEN FALSE
    ELSE IF cooldownKey \notin DOMAIN cooldowns THEN FALSE
    ELSE /\ cooldowns[cooldownKey] < now
         /\ now - cooldowns[cooldownKey] < cooldownSeconds

isInCooldown(cooldownKey, cooldownSeconds) ==
    IF cooldownSeconds <= 0 THEN FALSE
    ELSE IF cooldownKey \notin DOMAIN cooldowns THEN FALSE
    ELSE now - cooldowns[cooldownKey] < cooldownSeconds

recordCooldown(cooldownKey) == (cooldownKey :> now) @@ cooldowns

(* What the cluster answers.  A call that fails returns an error of the    *)
(* API; a Get that succeeds returns the object as the cluster has it now.  *)
DeleteAnswers == {"ok", "NotFound", "Unavailable"}
GetAnswers == {"ok", "Unavailable"}
PatchAnswers == {"ok", "Unavailable"}
(* The ReplicaSet read for a Pod: owned by Deployment d1, or by nothing *)
ReplicaSetOwners == {"d1", ""}
(* The deployment.kubernetes.io/revision annotation of a Deployment *)
RevisionAnswers == {"", "1", "2"}
(* maxReplicas of scaleDeployment *)
maxReplicas == 10
(* Spec.Replicas of a Deployment; None is a nil pointer *)
ReplicaAnswers == {None, 2, 6, 8, maxReplicas}

(* What a call of the engine came to: the Result's Success and Message,    *)
(* whether the returned error is non-nil, and the calls it made to the     *)
(* cluster, reads and writes, with the API's error if one failed; got is   *)
(* what the Deployment read had of the revision or of the replicas, if it  *)
(* was read.                                                               *)
Res(success, err, message, reads, writes, apiErr) ==
    [Success |-> success, err |-> err, Message |-> message,
     reads |-> reads, writes |-> writes, apiErr |-> apiErr, got |-> <<>>]

(* The result of a call that has read this of the Deployment *)
Got(result, answer) == [result EXCEPT !.got = <<answer>>]

NoCalls == {}
DeletePod(pod) == <<"DeletePod", pod.namespace, pod.name, 0>>
GetReplicaSet(pod) == <<"GetReplicaSet", pod.namespace, "rs1", 0>>
GetDeployment(namespace, name) == <<"GetDeployment", namespace, name, 0>>
PatchRevision(d, revision) == <<"PatchRevision", d.namespace, d.name, revision>>
PatchReplicas(d, replicas) == <<"PatchReplicas", d.namespace, d.name, replicas>>

restartPod(resource, namespace) ==
    IF resource.kind = "nil"
    THEN {Res(FALSE, TRUE, "Resource is nil", NoCalls, NoCalls, "")}
    ELSE IF resource.kind # "Pod"
    THEN {Res(FALSE, TRUE, "Resource is not a valid Pod", NoCalls, NoCalls, "")}
    ELSE IF config.DryRun
    THEN {Res(TRUE, FALSE, "Dry run: would restart pod", NoCalls, NoCalls, "")}
    ELSE {IF answer # "ok"
          THEN Res(FALSE, TRUE, "Failed to restart pod", NoCalls,
                   {DeletePod(resource)}, answer)
          ELSE Res(TRUE, FALSE, "Successfully restarted pod", NoCalls,
                   {DeletePod(resource)}, "")
          : answer \in DeleteAnswers}

(* rollbackDeployment going on whatever the current revision is *)
hasPreviousRevisionAlways(currentRevision) == TRUE

(* "if currentRevision == \"1\"" of rollbackDeployment: there is a revision  *)
(* to go back to                                                           *)
hasPreviousRevision(currentRevision) == currentRevision # "1"

rollbackDeployment(resource, namespace) ==
    LET nsConfig == GetNamespaceConfig(namespace)
        get == GetDeployment(resource.namespace, resource.name)
    IN  IF resource.kind = "nil"
        THEN {Res(FALSE, TRUE, "Resource is nil", NoCalls, NoCalls, "")}
        ELSE IF resource.kind # "Deployment"
        THEN {Res(FALSE, TRUE, "Resource is not a valid Deployment", NoCalls, NoCalls, "")}
        ELSE IF ~nsConfig.AutoRollbackEnabled
        THEN {Res(FALSE, FALSE, "Auto rollback is disabled for this namespace",
                  NoCalls, NoCalls, "")}
        ELSE IF config.DryRun
        THEN {Res(TRUE, FALSE, "Dry run: would rollback deployment", NoCalls, NoCalls, "")}
        ELSE UNION {
            IF got # "ok"
            THEN {Res(FALSE, TRUE, "Failed to get deployment", {get}, NoCalls, got)}
            ELSE UNION {
                LET currentRevision == IF annotation = "" THEN "1" ELSE annotation
                    previousRevision == 1
                IN  IF ~hasPreviousRevision(currentRevision)
                    THEN {Got(Res(FALSE, TRUE, "No previous revision found for rollback",
                                  {get}, NoCalls, ""), annotation)}
                    ELSE {Got(IF patched # "ok"
                              THEN Res(FALSE, TRUE, "Failed to rollback deployment", {get},
                                       {PatchRevision(resource, previousRevision)}, patched)
                              ELSE Res(TRUE, FALSE, "Successfully rolled back deployment",
                                       {get}, {PatchRevision(resource, previousRevision)}, ""),
                              annotation)
                          : patched \in PatchAnswers}
                : annotation \in RevisionAnswers}
            : got \in GetAnswers}

(* newReplicas without the limit *)
newReplicasUnlimited(currentReplicas) ==
    LET half == currentReplicas \div 2
    IN  currentReplicas + (IF half < 2 THEN 2 ELSE half)

(* newReplicas of scaleDeployment: half as many again, two more at least,  *)
(* and maxReplicas at most                                                 *)
newReplicas(currentReplicas) ==
    LET half == currentReplicas \div 2
        increase == IF half < 2 THEN 2 ELSE half
        sum == currentReplicas + increase
    IN  IF sum > maxReplicas THEN maxReplicas ELSE sum

(* reads: the reads the caller has made before *)
scaleDeployment(deployment, reads) ==
    LET get == GetDeployment(deployment.namespace, deployment.name)
    IN  UNION {
        IF got # "ok"
        THEN {Res(FALSE, TRUE, "Failed to get deployment", reads \cup {get}, NoCalls, got)}
        ELSE UNION {
            LET currentReplicas == IF replicas = None THEN 1 ELSE replicas
            IN  IF currentReplicas >= maxReplicas
                THEN {Got(Res(FALSE, TRUE, "Deployment already at maximum replicas",
                              reads \cup {get}, NoCalls, ""), replicas)}
                ELSE IF config.DryRun
                THEN {Got(Res(TRUE, FALSE, "Dry run: would scale deployment",
                              reads \cup {get}, NoCalls, ""), replicas)}
                ELSE {Got(IF patched # "ok"
                          THEN Res(FALSE, TRUE, "Failed to scale deployment",
                                   reads \cup {get},
                                   {PatchReplicas(deployment, newReplicas(currentReplicas))},
                                   patched)
                          ELSE Res(TRUE, FALSE, "Successfully scaled deployment",
                                   reads \cup {get},
                                   {PatchReplicas(deployment, newReplicas(currentReplicas))},
                                   ""),
                          replicas)
                      : patched \in PatchAnswers}
            : replicas \in ReplicaAnswers}
        : got \in GetAnswers}

scalePodDeployment(pod) ==
    LET notFound == Res(FALSE, TRUE, "Could not find owning deployment for pod",
                        NoCalls, NoCalls, "")
    IN  IF ~pod.ownerRS
        THEN {notFound}
        ELSE UNION {
            IF gotRS # "ok"
            THEN {Res(FALSE, TRUE, "Failed to get replicaset", {GetReplicaSet(pod)},
                      NoCalls, gotRS)}
            ELSE UNION {
                IF owner = ""
                THEN {[notFound EXCEPT !.reads = {GetReplicaSet(pod)}]}
                ELSE UNION {
                    IF got # "ok"
                    THEN {Res(FALSE, TRUE, "Failed to get deployment",
                              {GetReplicaSet(pod), GetDeployment(pod.namespace, owner)},
                              NoCalls, got)}
                    ELSE scaleDeployment(
                             [kind |-> "Deployment", name |-> owner,
                              namespace |-> pod.namespace, ownerRS |-> FALSE],
                             {GetReplicaSet(pod), GetDeployment(pod.namespace, owner)})
                    : got \in GetAnswers}
                : owner \in ReplicaSetOwners}
            : gotRS \in GetAnswers}

scaleReplicas(resource, namespace) ==
    LET nsConfig == GetNamespaceConfig(namespace)
    IN  IF ~nsConfig.AutoScaleEnabled
        THEN {Res(FALSE, FALSE, "Auto scaling is disabled for this namespace",
                  NoCalls, NoCalls, "")}
        ELSE IF resource.kind = "Pod" THEN scalePodDeployment(resource)
        ELSE IF resource.kind = "Deployment" THEN scaleDeployment(resource, NoCalls)
        ELSE {Res(FALSE, TRUE, "Resource type not supported for scaling",
                  NoCalls, NoCalls, "")}

(* The switch of ExecuteAction: the action's outcomes *)
dispatch(action, resource, namespace) ==
    CASE action = "restart-pod" -> restartPod(resource, namespace)
      [] action = "rollback-deployment" -> rollbackDeployment(resource, namespace)
      [] action = "scale-replicas" -> scaleReplicas(resource, namespace)
      [] OTHER -> {Res(FALSE, TRUE, "Unknown action", NoCalls, NoCalls, "")}

shouldRecordOnNilError(result) == ~result.err

(* "if err == nil && result.Success" of ExecuteAction *)
shouldRecord(result) == ~result.err /\ result.Success

(* The outcomes of ExecuteAction, each with whether recordCooldown is called *)
executeOutcomes(action, resource, namespace) ==
    LET nsConfig == GetNamespaceConfig(namespace)
        resourceName == getResourceName(resource)
        cooldownKey == <<namespace, resourceName, action>>
    IN  IF ~nsConfig.Enabled
        THEN {Res(FALSE, FALSE, "Remediation is disabled for this namespace",
                  NoCalls, NoCalls, "")}
        ELSE IF isInCooldown(cooldownKey, nsConfig.CooldownSeconds)
        THEN {Res(FALSE, FALSE, "Action skipped due to cooldown period",
                  NoCalls, NoCalls, "")}
        ELSE dispatch(action, resource, namespace)

NoCall ==
    [action |-> "", resource |-> "", namespace |-> "", result |-> Res(FALSE, FALSE, "", NoCalls, NoCalls, ""),
     sinceLast |-> None, streak |-> 0]

IsDelete(result) == \E w \in result.writes : w[1] = "DeletePod"

ExecuteAction(action, resource, namespace) ==
    /\ lastExec = NoCall
    /\ \E result \in executeOutcomes(action, resource, namespace) :
        LET cooldownKey == <<namespace, getResourceName(resource), action>>
        IN
            /\ cooldowns' = IF shouldRecord(result)
                            THEN recordCooldown(cooldownKey)
                            ELSE cooldowns
            /\ lastExec' = [action |-> action,
                            resource |-> getResourceName(resource),
                            namespace |-> namespace,
                            result |-> result,
                            sinceLast |-> IF result.Success /\ cooldownKey \in DOMAIN lastSuccess
                                          THEN now - lastSuccess[cooldownKey]
                                          ELSE None,
                            streak |-> IF IsDelete(result) THEN failStreak ELSE 0]
            /\ lastSuccess' = IF result.Success
                              THEN (cooldownKey :> now) @@ lastSuccess
                              ELSE lastSuccess
            /\ failStreak' = IF ~IsDelete(result) \/ result.Success THEN 0
                             ELSE IF failStreak < MaxStreak THEN failStreak + 1
                             ELSE failStreak
            /\ UNCHANGED <<now, config, rateLimiter, circuitBreaker, outsideEngine>>

(* processIssue has the Result: it records the metric and notifies, and    *)
(* the loop goes on.                                                       *)
processResult ==
    /\ lastExec # NoCall
    /\ lastExec' = NoCall
    /\ UNCHANGED <<now, config, cooldowns, rateLimiter, circuitBreaker,
                   lastSuccess, failStreak, outsideEngine>>

(* The cleanup ticker of Controller.Run fires between two cycles *)
CleanupCooldowns ==
    /\ lastExec = NoCall
    /\ cooldowns' = [key \in {k \in DOMAIN cooldowns : ~(now - cooldowns[k] > Hour)}
                        |-> cooldowns[key]]
    /\ failStreak' = 0
    /\ UNCHANGED <<now, config, rateLimiter, circuitBreaker, lastExec, lastSuccess,
                   outsideEngine>>

(* Time passes *)
Tick ==
    /\ lastExec = NoCall
    /\ \E t \in Instants : t > now /\ now' = t
    /\ failStreak' = 0
    /\ UNCHANGED <<config, cooldowns, rateLimiter, circuitBreaker, lastExec,
                   lastSuccess, outsideEngine>>

(* NewEngine *)
NewEngine ==
    /\ now = 0
    /\ config \in RemediationConfigs
    /\ cooldowns = EmptyMap
    /\ rateLimiter = EmptyMap
    /\ circuitBreaker = [s \in Surfaces |-> NewCircuitBreaker(EngineBreakerConfig(s), 0)]
    /\ lastExec = NoCall
    /\ lastSuccess = EmptyMap
    /\ failStreak = 0

(* No goroutine is calling the breaker that stands on its own *)
BreakerAtRest ==
    /\ cb = NewCircuitBreaker(ZeroConfig, 0)
    /\ clock = 0
    /\ calls = [c \in Callers |-> Idle]
    /\ cbEvent = NoEvent
    /\ admitted = 0

(* No goroutine is calling the limiter that stands on its own *)
LimiterAtRest ==
    /\ arl = NewActionRateLimiter(10, 100)
    /\ buckets = <<>>
    /\ allowers = [g \in Allowers |-> IdleAllower]
    /\ rlClock = 0
    /\ rlLog = EmptyLog

(* No one is calling the detector that stands on its own, and the cluster *)
(* has nothing to list                                                     *)
(* Controller.Run as it enters its loop, with or without a Slack notifier *)
NewRun(slack) ==
    [pc |-> "select", cancelled |-> FALSE, slack |-> slack, issues |-> <<>>,
     issue |-> EmptyMap, actions |-> <<>>, log |-> <<>>, deletes |-> <<>>, err |-> ""]

(* The goroutines that call one Engine at the same time *)
MaxGoroutines == 2
Goroutines == 1 .. MaxGoroutines

(* A goroutine that is not in ExecuteAction *)
IdleGoroutine == [pc |-> "idle", action |-> "", key |-> <<>>, result |-> EmptyMap]
NoGoroutines == goroutines = [g \in Goroutines |-> IdleGoroutine]

(* A controller that is not run, and nothing else calling the engine *)
ControllerAtRest == ctl = NewRun(FALSE) /\ NoGoroutines

DetectorAtRest ==
    /\ detector = NewDetector(DetectionConfig(EmptyMap))
    /\ cluster = [pods |-> <<>>, deployments |-> <<>>]
    /\ detNow = 0
    /\ detected = NoDetection
    /\ policyChange = NoChange

Init ==
    NewEngine /\ BreakerAtRest /\ LimiterAtRest /\ DetectorAtRest /\ ControllerAtRest

Next ==
    \/ \E action \in ActionNames, resource \in Resources :
           \E namespace \in CallNamespaces(resource) :
               ExecuteAction(action, resource, namespace)
    \/ processResult
    \/ CleanupCooldowns
    \/ Tick

Spec == Init /\ [][Next]_vars

----------------------------------------------------------------------------
(* pkg/circuitbreaker: one breaker and the goroutines that call Execute.   *)
(* beforeRequest, afterRequest and State hold the mutex, so each is one    *)
(* step; the operation runs between the two, outside the mutex.            *)

(* DefaultIsSuccessful *)
isSuccessful(err) == err = ErrNil

(* What a fallback may return for the error it is given: nil, or the error *)
FallbackResults(err) == {ErrNil, err}

(* The calls admitted in the HalfOpen period the breaker b2 is in after a  *)
(* step that admitted n calls                                              *)
AdmittedAfter(b2, n) ==
    IF b2.state # StateHalfOpen
    THEN 0
    ELSE (IF cb.state = StateHalfOpen THEN admitted ELSE 0) + n

(* Execute up to the call of the operation: beforeRequest, and the return  *)
(* with the error (through the fallback when there is one) if it has one.  *)
Execute(c) ==
    /\ calls[c].pc = "idle"
    /\ cb.counts.Requests < MaxCalls
    /\ LET r == beforeRequest(cb, clock)
       IN  /\ cb' = r.cb
           /\ IF r.err = ErrNil
              THEN /\ calls' = [calls EXCEPT ![c] =
                                   [pc |-> "running", generation |-> r.generation]]
                   /\ cbEvent' = [op |-> "Execute", caller |-> c, err |-> r.err,
                                  invoked |-> TRUE, returned |-> "running"]
                   /\ admitted' = AdmittedAfter(r.cb, 1)
              ELSE /\ calls' = calls
                   /\ \E returned \in IF cb.fallback THEN FallbackResults(r.err)
                                                      ELSE {r.err} :
                          cbEvent' = [op |-> "Execute", caller |-> c, err |-> r.err,
                                      invoked |-> FALSE, returned |-> returned]
                   /\ admitted' = AdmittedAfter(r.cb, 0)
    /\ UNCHANGED <<clock, outsideBreaker>>

(* ExecuteReturns with a recover() that only lets the panic through *)
ExecuteReturnsPanicUnaccounted(c) ==
    /\ calls[c].pc = "running"
    /\ \E outcome \in {ErrNil, "error", "panic"} :
          /\ cb' = IF outcome = "panic"
                   THEN currentState(cb, clock)
                   ELSE afterRequest(cb, calls[c].generation, isSuccessful(outcome),
                                     clock)
          /\ cbEvent' = [op |-> "afterRequest", caller |-> c,
                         before |-> calls[c].generation, returned |-> outcome]
    /\ calls' = [calls EXCEPT ![c] = Idle]
    /\ admitted' = AdmittedAfter(cb', 0)
    /\ UNCHANGED <<clock, outsideBreaker>>

(* The operation returns nil or an error, or panics; Execute accounts it   *)
(* with afterRequest and returns the error, or panics again.               *)
ExecuteReturns(c) ==
    /\ calls[c].pc = "running"
    /\ \E outcome \in {ErrNil, "error", "panic"} :
          /\ cb' = afterRequest(cb, calls[c].generation,
                                outcome # "panic" /\ isSuccessful(outcome), clock)
          /\ cbEvent' = [op |-> "afterRequest", caller |-> c,
                         before |-> calls[c].generation, returned |-> outcome]
    /\ calls' = [calls EXCEPT ![c] = Idle]
    /\ admitted' = AdmittedAfter(cb', 0)
    /\ UNCHANGED <<clock, outsideBreaker>>

(* cb.State() *)
State ==
    /\ cb' = currentState(cb, clock)
    /\ cbEvent' = [op |-> "State", returned |-> cb'.state]
    /\ admitted' = AdmittedAfter(cb', 0)
    /\ UNCHANGED <<clock, calls, outsideBreaker>>

(* 30 seconds pass *)
TickCB ==
    /\ clock < MaxClock
    /\ clock' = clock + 1
    /\ cbEvent' = NoEvent
    /\ UNCHANGED <<cb, calls, admitted, outsideBreaker>>

(* The engine the breaker's package is linked into, doing nothing *)
EngineAtRest ==
    /\ now = 0
    /\ config = [Enabled |-> TRUE, DryRun |-> FALSE, AutoRollbackEnabled |-> TRUE,
                 AutoScaleEnabled |-> TRUE, CooldownSeconds |-> Hour,
                 Namespaces |-> EmptyMap]
    /\ cooldowns = EmptyMap
    /\ rateLimiter = EmptyMap
    /\ circuitBreaker = [s \in Surfaces |-> NewCircuitBreaker(EngineBreakerConfig(s), 0)]
    /\ lastExec = NoCall
    /\ lastSuccess = EmptyMap
    /\ failStreak = 0

InitCB ==
    /\ EngineAtRest
    /\ cb \in {NewCircuitBreaker(cfg, 0) : cfg \in Configs}
    /\ clock = 0
    /\ calls = [c \in Callers |-> Idle]
    /\ cbEvent = NoEvent
    /\ admitted = 0
    /\ LimiterAtRest
    /\ DetectorAtRest
    /\ ControllerAtRest

NextCB ==
    \/ \E c \in Callers : Execute(c)
    \/ \E c \in Callers : ExecuteReturns(c)
    \/ State
    \/ TickCB

SpecCB == InitCB /\ [][NextCB]_vars

(* The breakers of the engine, as NewEngine builds them, under the calls   *)
(* of SpecCB                                                               *)
InitEB ==
    /\ EngineAtRest
    /\ cb \in {circuitBreaker[s] : s \in Surfaces}
    /\ clock = 0
    /\ calls = [c \in Callers |-> Idle]
    /\ cbEvent = NoEvent
    /\ admitted = 0
    /\ LimiterAtRest
    /\ DetectorAtRest
    /\ ControllerAtRest

SpecEB == InitEB /\ [][NextCB]_vars

----------------------------------------------------------------------------
(* pkg/ratelimit: one ActionRateLimiter and the goroutines that call       *)
(* Allow.  Each critical section of Allow is one step: the lookup under    *)
(* the read lock, the creation under the write lock, and RateLimiter.Allow *)
(* under the mutex of the bucket.                                          *)

CallsMade ==
    LET perAction(a) == Len(rlLog[a].allowed) + rlLog[a].denied
        inFlight == Cardinality({g \in Allowers : allowers[g].pc # "idle"})
    IN  perAction("restart-pod") + perAction("scale-replicas") + inFlight

(* The write-locked part of ActionRateLimiter.Allow, without the second    *)
(* look at the table: the table and the buckets after it, and the bucket   *)
(* the caller goes on with                                                 *)
createAlways(action) ==
    [table |-> (action :> Len(buckets) + 1) @@ arl.limiter,
     buckets |-> Append(buckets,
                        NewRateLimiter(arl.defaultCap, arl.defaultRate, rlClock)),
     limiter |-> Len(buckets) + 1]

(* The write-locked part of ActionRateLimiter.Allow: a bucket is made only *)
(* if the table still has none for the action                              *)
createIfAbsent(action) ==
    IF action \in DOMAIN arl.limiter
    THEN [table |-> arl.limiter, buckets |-> buckets,
          limiter |-> arl.limiter[action]]
    ELSE [table |-> (action :> Len(buckets) + 1) @@ arl.limiter,
          buckets |-> Append(buckets,
                             NewRateLimiter(arl.defaultCap, arl.defaultRate, rlClock)),
          limiter |-> Len(buckets) + 1]

(* arl.Allow(action) is called: limiter, exists := arl.limiter[action]     *)
AllowLookup(g, action) ==
    /\ allowers[g].pc = "idle"
    /\ CallsMade < MaxAllows
    /\ allowers' = [allowers EXCEPT ![g] =
                       IF action \in DOMAIN arl.limiter
                       THEN [pc |-> "allow", action |-> action,
                             limiter |-> arl.limiter[action]]
                       ELSE [pc |-> "create", action |-> action,
                             limiter |-> NilLimiter]]
    /\ UNCHANGED <<arl, buckets, rlClock, rlLog, outsideLimiter>>

(* if !exists { Lock; check again; create; Unlock } *)
AllowCreate(g) ==
    /\ allowers[g].pc = "create"
    /\ LET made == createIfAbsent(allowers[g].action)
       IN  /\ arl' = [arl EXCEPT !.limiter = made.table]
           /\ buckets' = made.buckets
           /\ allowers' = [allowers EXCEPT ![g].pc = "allow",
                                           ![g].limiter = made.limiter]
    /\ UNCHANGED <<rlClock, rlLog, outsideLimiter>>

(* return limiter.Allow() *)
AllowReturns(g) ==
    /\ allowers[g].pc = "allow"
    /\ LET a == allowers[g].action
           l == allowers[g].limiter
           r == Allow(buckets[l], rlClock)
       IN  /\ buckets' = [buckets EXCEPT ![l] = r.rl]
           /\ rlLog' = IF r.ok
                       THEN [rlLog EXCEPT ![a].allowed = Append(@, rlClock)]
                       ELSE [rlLog EXCEPT ![a].denied = @ + 1]
    /\ allowers' = [allowers EXCEPT ![g] = IdleAllower]
    /\ UNCHANGED <<arl, rlClock, outsideLimiter>>

(* Half a second passes *)
TickRL ==
    /\ rlClock < MaxTicks
    /\ rlClock' = rlClock + 1
    /\ UNCHANGED <<arl, buckets, allowers, rlLog, outsideLimiter>>

InitRL ==
    /\ EngineAtRest
    /\ BreakerAtRest
    /\ arl \in ActionRateLimiters
    /\ buckets = <<>>
    /\ allowers = [g \in Allowers |-> IdleAllower]
    /\ rlClock = 0
    /\ rlLog = EmptyLog
    /\ DetectorAtRest
    /\ ControllerAtRest

NextRL ==
    \/ \E g \in Allowers, action \in AllowActions : AllowLookup(g, action)
    \/ \E g \in Allowers : AllowCreate(g)
    \/ \E g \in Allowers : AllowReturns(g)
    \/ TickRL

SpecRL == InitRL /\ [][NextRL]_vars

----------------------------------------------------------------------------
(* pkg/detection: one Detector, the cluster it lists and its clock.        *)
(* DetectIssues runs every rule in one step; the cluster stays as it was   *)
(* listed.                                                                 *)

(* LoadRules *)
LoadRules ==
    /\ detector.rules = <<>>
    /\ detector' = [detector EXCEPT !.rules = BuiltInRules]
    /\ UNCHANGED <<cluster, detNow, detected, policyChange, outsideDetector>>

(* DetectIssues(ctx) *)
DetectIssues ==
    /\ \E failed \in ListFailures :
           detected' = [at |-> detNow, failed |-> failed,
                        evaluated |-> evaluated(detector, failed),
                        issues |-> detectIssues(detector, cluster, failed, detNow),
                        err |-> ErrNil]
    /\ UNCHANGED <<detector, cluster, detNow, policyChange, outsideDetector>>

(* Time passes *)
TickDet ==
    /\ detNow < MaxDetClock
    /\ detNow' = detNow + 1
    /\ UNCHANGED <<detector, cluster, detected, policyChange, outsideDetector>>

InitDet ==
    /\ EngineAtRest
    /\ BreakerAtRest
    /\ LimiterAtRest
    /\ detector \in {NewDetector(cfg) : cfg \in DetectionConfigs}
    /\ cluster \in Clusters
    /\ detNow = 0
    /\ detected = NoDetection
    /\ policyChange = NoChange
    /\ ControllerAtRest

NextDet ==
    \/ LoadRules
    \/ DetectIssues
    \/ TickDet

SpecDet == InitDet /\ [][NextDet]_vars

----------------------------------------------------------------------------
(* NewController: the detector and the engine are built from one           *)
(* configuration file, the rules are loaded, and the controller's cycle    *)
(* calls DetectIssues and then ExecuteAction.  The same controller is      *)
(* looked at under a second configuration file, one that differs from the  *)
(* first in what it says about one namespace and in nothing else, the      *)
(* cluster and the cooldowns being the same.                               *)

(* What a file says about a namespace: nothing; an entry that sets the     *)
(* thresholds it must and leaves the rest out; an entry that enables       *)
(* everything                                                              *)
NoPolicy == [set |-> FALSE]
NamespacePolicies ==
    {[set |-> TRUE,
      remediation |-> [Enabled |-> FALSE, AutoRollbackEnabled |-> FALSE,
                       AutoScaleEnabled |-> FALSE, CooldownSeconds |-> 0],
      detection |-> NamespaceConfig(CrashLoopOff, DeploymentOff, CPUOn, MemoryOff)],
     [set |-> TRUE,
      remediation |-> [Enabled |-> TRUE, AutoRollbackEnabled |-> TRUE,
                       AutoScaleEnabled |-> TRUE, CooldownSeconds |-> Hour],
      detection |-> NamespaceConfig(CrashLoopAtOnce, DeploymentOn, CPUOn, MemoryAtOnce)]}

(* convertRemediationNamespaces and convertConfigNamespaces: the maps the  *)
(* engine and the detector get                                             *)
convertRemediationNamespaces(file) ==
    [n \in {m \in DOMAIN file : file[m].set} |-> file[n].remediation]
convertConfigNamespaces(file) ==
    [n \in {m \in DOMAIN file : file[m].set} |-> file[n].detection]

ConfigFiles == [Namespaces -> {NoPolicy} \cup NamespacePolicies]

(* The cluster of the controller: a pod in "dev", and a pod and a          *)
(* deployment in "prod", all of them failing                               *)
FailingCluster ==
    [pods |-> <<Pod("dev", "p1", <<CrashLooping, OOMKilledAgain>>),
                Pod("prod", "p2", <<CrashLooping>>)>>,
     deployments |->
         <<Deployment("prod", "d1",
                      <<Condition("Progressing", "False",
                                  "ProgressDeadlineExceeded", 0)>>)>>]

(* The issues the controller has the engine act on *)
Remediations ==
    {<<"scale-replicas", PodP1>>, <<"rollback-deployment", DeploymentD1>>}

NewController(file) ==
    /\ now = 0
    /\ config = [Enabled |-> TRUE, DryRun |-> FALSE, AutoRollbackEnabled |-> TRUE,
                 AutoScaleEnabled |-> TRUE, CooldownSeconds |-> Hour,
                 Namespaces |-> convertRemediationNamespaces(file)]
    /\ cooldowns = EmptyMap
    /\ rateLimiter = EmptyMap
    /\ circuitBreaker = [s \in Surfaces |-> NewCircuitBreaker(EngineBreakerConfig(s), 0)]
    /\ lastExec = NoCall
    /\ lastSuccess = EmptyMap
    /\ failStreak = 0
    /\ detector = [NewDetector(DetectionConfig(convertConfigNamespaces(file)))
                       EXCEPT !.rules = BuiltInRules]
    /\ detected = NoDetection
    /\ policyChange = NoChange

(* The second configuration: what the file says about namespace changes *)
Reconfigure(namespace) ==
    /\ lastExec = NoCall
    /\ policyChange.namespace = ""
    /\ \E policy \in {NoPolicy} \cup NamespacePolicies :
        LET remediation == IF policy.set
                           THEN (namespace :> policy.remediation) @@ config.Namespaces
                           ELSE [n \in DOMAIN config.Namespaces \ {namespace}
                                     |-> config.Namespaces[n]]
            detection == IF policy.set
                         THEN (namespace :> policy.detection) @@ detector.config.Namespaces
                         ELSE [n \in DOMAIN detector.config.Namespaces \ {namespace}
                                   |-> detector.config.Namespaces[n]]
        IN  /\ remediation # config.Namespaces
            /\ config' = [config EXCEPT !.Namespaces = remediation]
            /\ detector' = [detector EXCEPT !.config.Namespaces = detection]
            /\ policyChange' = [namespace |-> namespace, config |-> config,
                                detector |-> detector]
    /\ UNCHANGED <<now, cooldowns, rateLimiter, circuitBreaker, lastExec, lastSuccess,
                   failStreak, cluster, detNow, detected, breakerVars, limiterVars,
                   controllerVars, concurrentVars>>

InitNS ==
    /\ \E file \in ConfigFiles : NewController(file)
    /\ cluster = FailingCluster
    /\ detNow = TenMinutes
    /\ BreakerAtRest
    /\ LimiterAtRest
    /\ ControllerAtRest

NextNS ==
    \/ DetectIssues
    \/ \E remediation \in Remediations :
           ExecuteAction(remediation[1], remediation[2], remediation[2].namespace)
    \/ processResult
    \/ \E namespace \in Namespaces : Reconfigure(namespace)

SpecNS == InitNS /\ [][NextNS]_vars

----------------------------------------------------------------------------
(* The controller: Run's loop, runDetectionCycle and processIssue, on a    *)
(* cluster whose pod "p1" of "dev" keeps being killed for its memory.      *)

OOMKilledCluster ==
    [pods |-> <<Pod("dev", "p1", <<OOMKilledAgain>>)>>, deployments |-> <<>>]

(* issue.Resource as the engine's type switch sees it; the pods of the     *)
(* cluster are owned by a ReplicaSet                                       *)
Resource(issue) ==
    [kind |-> issue.Kind, name |-> issue.Name, namespace |-> issue.Namespace,
     ownerRS |-> issue.Kind = "Pod"]

(* What processIssue does, as the log has it: a notification handed to     *)
(* the notifier, which sends it or fails, and a call of ExecuteAction      *)
(* with the writes it made and the status the metric gets                  *)
Notified(type, success, sent) ==
    [event |-> "notification", type |-> type, success |-> success, sent |-> sent]
Attempted(call) ==
    [event |-> "ExecuteAction", action |-> call.action,
     writes |-> call.result.writes,
     status |-> IF call.result.err THEN "error"
                ELSE IF call.result.Success THEN "success" ELSE "failed"]

(* processIssue up to its loop: the issue's notification *)
issueNotified(c, sent) ==
    LET issue == Head(c.issues)
    IN  [c EXCEPT !.issue = issue,
                  !.issues = Tail(c.issues),
                  !.actions = issue.Actions,
                  !.log = IF c.slack THEN <<Notified("issue", TRUE, sent)>> ELSE <<>>,
                  !.pc = IF issue.Actions # <<>> THEN "action"
                         ELSE IF Tail(c.issues) # <<>> THEN "issue" ELSE "select"]

(* The loop of processIssue giving up the issue at an action's error *)
actionExecutedOrGivenUp(c, call, sent) ==
    LET rest == IF call.result.err THEN <<>> ELSE Tail(c.actions)
    IN  [c EXCEPT !.log = c.log \o <<Attempted(call)>>
                          \o (IF ~call.result.err /\ c.slack
                              THEN <<Notified("remediation", call.result.Success, sent)>>
                              ELSE <<>>),
                  !.deletes = c.deletes \o (IF IsDelete(call.result)
                                            THEN <<call.result.Success>>
                                            ELSE <<>>),
                  !.actions = rest,
                  !.pc = IF rest # <<>> THEN "action"
                         ELSE IF c.issues # <<>> THEN "issue" ELSE "select"]

(* The body of the loop of processIssue after ExecuteAction has returned:  *)
(* at an error the metric and "continue"; else the metric and the          *)
(* remediation's notification.  Then the next action, the next issue, or   *)
(* back to Run's select.                                                   *)
actionExecuted(c, call, sent) ==
    LET rest == Tail(c.actions)
    IN  [c EXCEPT !.log = c.log \o <<Attempted(call)>>
                          \o (IF ~call.result.err /\ c.slack
                              THEN <<Notified("remediation", call.result.Success, sent)>>
                              ELSE <<>>),
                  !.deletes = c.deletes \o (IF IsDelete(call.result)
                                            THEN <<call.result.Success>>
                                            ELSE <<>>),
                  !.actions = rest,
                  !.pc = IF rest # <<>> THEN "action"
                         ELSE IF c.issues # <<>> THEN "issue" ELSE "select"]

(* The context of Run is cancelled *)
ContextDone ==
    /\ ~ctl.cancelled
    /\ ctl.pc # "returned"
    /\ ctl' = [ctl EXCEPT !.cancelled = TRUE]
    /\ UNCHANGED <<engineVars, detectorVars, breakerVars, limiterVars,
                   concurrentVars>>

(* Run returning at an error of the cycle as well *)
RunReturnsAtError ==
    /\ ctl.pc = "select"
    /\ \/ ctl.cancelled
       \/ \E i \in DOMAIN ctl.log :
              ctl.log[i].event = "ExecuteAction" /\ ctl.log[i].status = "error"
    /\ ctl' = [ctl EXCEPT !.pc = "returned", !.err = ErrNil]
    /\ UNCHANGED <<engineVars, detectorVars, breakerVars, limiterVars,
                   concurrentVars>>

(* case <-ctx.Done(): return nil *)
RunReturns ==
    /\ ctl.pc = "select"
    /\ ctl.cancelled
    /\ ctl' = [ctl EXCEPT !.pc = "returned", !.err = ErrNil]
    /\ UNCHANGED <<engineVars, detectorVars, breakerVars, limiterVars,
                   concurrentVars>>

(* case <-ticker.C: runDetectionCycle up to its loop over the issues.      *)
(* DetectIssues returns no error; a rule's failure leaves its issues out:  *)
(* no rule fails, or the first of the two that find the pod, or all.       *)
runDetectionCycle ==
    /\ ctl.pc = "select"
    /\ \E failed \in {{}, {"high-memory-usage"}, RuleNames} :
           LET issues == detectIssues(detector, cluster, failed, detNow)
           IN  /\ detected' = [at |-> detNow, failed |-> failed,
                                evaluated |-> evaluated(detector, failed),
                                issues |-> issues, err |-> ErrNil]
               /\ ctl' = [ctl EXCEPT !.issues = issues,
                                     !.deletes = <<>>,
                                     !.pc = IF issues # <<>> THEN "issue" ELSE "select"]
    /\ UNCHANGED <<engineVars, detector, cluster, detNow, policyChange,
                   breakerVars, limiterVars, concurrentVars>>

(* processIssue is called for the next issue *)
processIssue ==
    /\ ctl.pc = "issue"
    /\ \E sent \in IF ctl.slack THEN BOOLEAN ELSE {TRUE} :
           ctl' = issueNotified(ctl, sent)
    /\ UNCHANGED <<engineVars, detectorVars, breakerVars, limiterVars,
                   concurrentVars>>

(* c.remediator.ExecuteAction(ctx, action, issue.Resource, issue.Namespace) *)
executeAction ==
    /\ ctl.pc = "action"
    /\ ExecuteAction(Head(ctl.actions), Resource(ctl.issue), ctl.issue.Namespace)

(* ExecuteAction has returned *)
remediated ==
    /\ ctl.pc = "action"
    /\ lastExec # NoCall
    /\ \E sent \in IF ctl.slack /\ ~lastExec.result.err THEN BOOLEAN ELSE {TRUE} :
           ctl' = actionExecuted(ctl, lastExec, sent)
    /\ lastExec' = NoCall
    /\ UNCHANGED <<now, config, cooldowns, rateLimiter, circuitBreaker, lastSuccess,
                   failStreak, detectorVars, breakerVars, limiterVars,
                   concurrentVars>>

(* The cleanup run by a goroutine of its own, beside the cycles *)
cleanupTickBesideCycle == CleanupCooldowns

(* case <-cleanupTicker.C *)
cleanupTick == ctl.pc = "select" /\ CleanupCooldowns

(* Time passes between two cycles *)
TickCtl == ctl.pc = "select" /\ Tick

InitCtl ==
    /\ now = 0
    /\ config = [Enabled |-> TRUE, DryRun |-> FALSE, AutoRollbackEnabled |-> TRUE,
                 AutoScaleEnabled |-> TRUE, CooldownSeconds |-> Hour,
                 Namespaces |-> EmptyMap]
    /\ cooldowns = EmptyMap
    /\ rateLimiter = EmptyMap
    /\ circuitBreaker = [s \in Surfaces |-> NewCircuitBreaker(EngineBreakerConfig(s), 0)]
    /\ lastExec = NoCall
    /\ lastSuccess = EmptyMap
    /\ failStreak = 0
    /\ detector = [NewDetector(DetectionConfig(EmptyMap)) EXCEPT !.rules = BuiltInRules]
    /\ cluster = OOMKilledCluster
    /\ detNow = TenMinutes
    /\ detected = NoDetection
    /\ policyChange = NoChange
    /\ \E slack \in BOOLEAN : ctl = NewRun(slack)
    /\ NoGoroutines
    /\ BreakerAtRest
    /\ LimiterAtRest

NextCtl ==
    \/ ContextDone
    \/ RunReturns
    \/ runDetectionCycle
    \/ processIssue
    \/ executeAction
    \/ remediated
    \/ cleanupTick
    \/ TickCtl

SpecCtl == InitCtl /\ [][NextCtl]_vars

(* A call made in a cycle panics: in DetectIssues at the tick, in a        *)
(* notifier or in ExecuteAction.  Run has no recover(), nor has            *)
(* runDetectionCycle, processIssue or the goroutine that calls Run: the    *)
(* panic unwinds Run.                                                      *)
cyclePanics ==
    /\ ctl.pc \in {"select", "issue", "action"}
    /\ lastExec = NoCall
    /\ ctl' = [ctl EXCEPT !.pc = "panicked"]
    /\ UNCHANGED <<engineVars, detectorVars, breakerVars, limiterVars,
                   concurrentVars>>

NextPanic ==
    \/ NextCtl
    \/ cyclePanics

(* The controller with calls that may panic *)
SpecPanic == InitCtl /\ [][NextPanic]_vars

(* Run with the scheduling of Go: a select with several cases ready takes  *)
(* one of them at random, so the case of a cancelled context is not        *)
(* passed over for ever; and the calls of a cycle return.                  *)
SpecRun ==
    /\ SpecCtl
    /\ SF_vars(RunReturns)
    /\ WF_vars(processIssue)
    /\ WF_vars(executeAction)
    /\ WF_vars(remediated)

----------------------------------------------------------------------------
(* The engine asked to scale through the Pods of one Deployment, as the    *)
(* controller asks it for the issues of a cycle: each issue carries its    *)
(* own Pod, and the ReplicaSet of each is owned by Deployment d1.          *)

PodP2 == [kind |-> "Pod", name |-> "p2", namespace |-> "dev", ownerRS |-> TRUE]
OwnedPods == {PodP1, PodP2}

scaleThroughPod ==
    \E pod \in OwnedPods : ExecuteAction("scale-replicas", pod, pod.namespace)

InitPods ==
    /\ EngineAtRest
    /\ BreakerAtRest
    /\ LimiterAtRest
    /\ DetectorAtRest
    /\ ControllerAtRest

NextPods ==
    \/ scaleThroughPod
    \/ processResult
    \/ CleanupCooldowns
    \/ Tick

SpecPods == InitPods /\ [][NextPods]_vars

----------------------------------------------------------------------------
(* The engine tried in dry-run and then put to work: it is built with      *)
(* DryRun set and called; then the configuration gets dryRun: false and    *)
(* the process is started again, with an engine that has no cooldowns,     *)
(* and is called for real.  No time passes: the cluster is the same.       *)

goLive ==
    /\ lastExec = NoCall
    /\ config.DryRun
    /\ config' = [config EXCEPT !.DryRun = FALSE]
    /\ cooldowns' = EmptyMap
    /\ rateLimiter' = EmptyMap
    /\ circuitBreaker' = [s \in Surfaces |-> NewCircuitBreaker(EngineBreakerConfig(s), 0)]
    /\ failStreak' = 0
    /\ UNCHANGED <<now, lastExec, lastSuccess, outsideEngine>>

InitDry ==
    /\ NewEngine
    /\ config.DryRun
    /\ config.Enabled
    /\ config.CooldownSeconds = Hour
    /\ config.Namespaces = EmptyMap
    /\ BreakerAtRest
    /\ LimiterAtRest
    /\ DetectorAtRest
    /\ ControllerAtRest

NextDry ==
    \/ \E action \in Actions, resource \in Resources :
           \E namespace \in CallNamespaces(resource) :
               ExecuteAction(action, resource, namespace)
    \/ processResult
    \/ goLive

SpecDry == InitDry /\ [][NextDry]_vars

----------------------------------------------------------------------------
(* The engine called by several goroutines at once, as its benchmark       *)
(* calls it: ExecuteAction("restart-pod", p1, "dev") from each, and the    *)
(* cleanup in between.  The Engine has no lock: a call reads the table in  *)
(* isInCooldown, makes its calls to the cluster, and writes the table in   *)
(* recordCooldown, and the other goroutines run in between.                *)

(* ExecuteAction up to the switch: the namespace's switch and isInCooldown *)
beginExecute(g) ==
    /\ goroutines[g].pc = "idle"
    /\ LET action == "restart-pod"
           namespace == PodP1.namespace
           nsConfig == GetNamespaceConfig(namespace)
           cooldownKey == <<namespace, getResourceName(PodP1), action>>
           call == [pc |-> "acted", action |-> action, key |-> cooldownKey,
                    result |-> EmptyMap]
       IN  goroutines' = [goroutines EXCEPT ![g] =
               IF ~nsConfig.Enabled
               THEN [call EXCEPT !.result =
                        Res(FALSE, FALSE, "Remediation is disabled for this namespace",
                            NoCalls, NoCalls, "")]
               ELSE IF isInCooldown(cooldownKey, nsConfig.CooldownSeconds)
               THEN [call EXCEPT !.result =
                        Res(FALSE, FALSE, "Action skipped due to cooldown period",
                            NoCalls, NoCalls, "")]
               ELSE [call EXCEPT !.pc = "checked"]]
    /\ UNCHANGED <<engineVars, breakerVars, limiterVars, detectorVars, controllerVars>>

(* The switch of ExecuteAction: the action and its calls to the cluster *)
act(g) ==
    /\ goroutines[g].pc = "checked"
    /\ \E result \in dispatch(goroutines[g].action, PodP1, PodP1.namespace) :
           goroutines' = [goroutines EXCEPT ![g].pc = "acted", ![g].result = result]
    /\ UNCHANGED <<engineVars, breakerVars, limiterVars, detectorVars, controllerVars>>

(* The end of ExecuteAction: recordCooldown at a success, and the return *)
endExecute(g) ==
    /\ goroutines[g].pc = "acted"
    /\ cooldowns' = IF shouldRecord(goroutines[g].result)
                    THEN recordCooldown(goroutines[g].key)
                    ELSE cooldowns
    /\ goroutines' = [goroutines EXCEPT ![g] = IdleGoroutine]
    /\ UNCHANGED <<now, config, rateLimiter, circuitBreaker, lastExec, lastSuccess,
                   failStreak, breakerVars, limiterVars, detectorVars, controllerVars>>

(* The write of g to the map happens while h reads or writes the same map: *)
(* a data race.  Besides the outcomes of the steps one after the other,    *)
(* the runtime may find the map in use and end the process ("fatal error:  *)
(* concurrent map writes").                                                *)
concurrentMapAccess(g, h) ==
    /\ g # h
    /\ goroutines[g].pc = "acted"
    /\ shouldRecord(goroutines[g].result)
    /\ goroutines[h].pc \in {"idle", "acted"}
    /\ goroutines' = [f \in Goroutines |-> [goroutines[f] EXCEPT !.pc = "fatal"]]
    /\ UNCHANGED <<engineVars, breakerVars, limiterVars, detectorVars, controllerVars>>

InitGo ==
    /\ now = 0
    /\ \E dryRun \in BOOLEAN :
           config = [Enabled |-> TRUE, DryRun |-> dryRun, AutoRollbackEnabled |-> TRUE,
                     AutoScaleEnabled |-> TRUE, CooldownSeconds |-> Hour,
                     Namespaces |-> EmptyMap]
    /\ cooldowns = EmptyMap
    /\ rateLimiter = EmptyMap
    /\ circuitBreaker = [s \in Surfaces |-> NewCircuitBreaker(EngineBreakerConfig(s), 0)]
    /\ lastExec = NoCall
    /\ lastSuccess = EmptyMap
    /\ failStreak = 0
    /\ NoGoroutines
    /\ ctl = NewRun(FALSE)
    /\ BreakerAtRest
    /\ LimiterAtRest
    /\ DetectorAtRest

NextGo ==
    \/ \E g \in Goroutines : beginExecute(g)
    \/ \E g \in Goroutines : act(g)
    \/ \E g \in Goroutines : endExecute(g)
    \/ \E g, h \in Goroutines : concurrentMapAccess(g, h)
    \/ CleanupCooldowns
    \/ Tick

SpecGo == InitGo /\ [][NextGo]_vars

----------------------------------------------------------------------------
(* Properties of the engine *)

Called == lastExec # NoCall
Returns == lastExec = NoCall /\ lastExec' # NoCall
CallKey(call) == <<call.namespace, call.resource, call.action>>

(* The policy in force for a namespace: its entry, else the global one *)
PolicyEnabled(namespace) ==
    IF namespace \in DOMAIN config.Namespaces
    THEN config.Namespaces[namespace].Enabled
    ELSE config.Enabled
PolicyCooldown(namespace) ==
    IF namespace \in DOMAIN config.Namespaces
    THEN config.Namespaces[namespace].CooldownSeconds
    ELSE config.CooldownSeconds

(* C1: two ExecuteAction calls with the same action, resource and          *)
(* namespace that both return Success are at least cooldownSeconds apart,  *)
(* with CleanupCooldowns running at any time between them.                 *)
C1_SuccessesCooldownApart ==
    (Called /\ lastExec.result.Success /\ lastExec.sinceLast # None)
        => lastExec.sinceLast >= PolicyCooldown(lastExec.namespace)

(* C2: with DryRun set no call writes to the cluster, a call that returns  *)
(* Success has recorded its cooldown entry, and the same action on the     *)
(* same resource does not succeed again before cooldownSeconds have        *)
(* elapsed.                                                                *)
C2_DryRunNoWriteButCooldown ==
    (Called /\ config.DryRun) =>
        /\ lastExec.result.writes = {}
        /\ lastExec.result.Success =>
              /\ CallKey(lastExec) \in DOMAIN cooldowns
              /\ cooldowns[CallKey(lastExec)] = now
        /\ (lastExec.result.Success /\ lastExec.sinceLast # None)
              => lastExec.sinceLast >= PolicyCooldown(lastExec.namespace)

(* C3: ExecuteAction writes the cooldown entry of its key, with the time   *)
(* of the call, exactly when it returns Success and a nil error; after any *)
(* other outcome the cooldown table is as it was.                          *)
C3_CooldownWrittenIffSuccess ==
    [][Returns =>
          IF lastExec'.result.Success /\ ~lastExec'.result.err
          THEN cooldowns' = (CallKey(lastExec') :> now) @@ cooldowns
          ELSE cooldowns' = cooldowns]_vars

C3_Witness ==
    /\ Called
    /\ lastExec.result.Success
    /\ lastExec.result.writes # {}
    /\ cooldowns[CallKey(lastExec)] = now

(* C4: a call that gets past the cooldown check has asked the rate limiter *)
(* with Allow(action), which creates the bucket of the action; and a call  *)
(* whose bucket is empty reads and writes nothing and does not succeed.    *)
C4_RateLimiterConsulted ==
    (Called /\ lastExec.result.Message \notin
                   {"Remediation is disabled for this namespace",
                    "Action skipped due to cooldown period"})
        => /\ lastExec.action \in DOMAIN rateLimiter
           /\ rateLimiter[lastExec.action].tokens = 0 =>
                  /\ ~lastExec.result.Success
                  /\ lastExec.result.writes = {}

(* C5: a pod deletion goes through the breaker of the pods API, which is   *)
(* open once 6 deletions in a row have failed: the 7th restart-pod, made   *)
(* before any time has passed, does not reach the cluster.                 *)
C5_SeventhDeleteNotIssued ==
    (Called /\ IsDelete(lastExec.result)) => lastExec.streak <= DefaultTripAbove

(* C6: when the policy of the namespace has Enabled = false, ExecuteAction *)
(* returns a Result without Success and a nil error, calls the cluster     *)
(* neither to read nor to write, and leaves the cooldown table as it was.  *)
C6_DisabledNamespaceNoEffect ==
    [][(Returns /\ ~PolicyEnabled(lastExec'.namespace)) =>
          /\ ~lastExec'.result.Success
          /\ ~lastExec'.result.err
          /\ lastExec'.result.reads = {}
          /\ lastExec'.result.writes = {}
          /\ cooldowns' = cooldowns]_vars

C6_Witness ==
    /\ Called
    /\ ~PolicyEnabled(lastExec.namespace)
    /\ lastExec.action = "restart-pod"
    /\ lastExec.resource = "p1"
    /\ ~config.DryRun

SkippedByCooldown ==
    lastExec.result.Message = "Action skipped due to cooldown period"
C36_CooldownExpires ==
    (Called /\ PolicyEnabled(lastExec.namespace) /\ lastExec.sinceLast # None) =>
        IF lastExec.sinceLast >= PolicyCooldown(lastExec.namespace)
        THEN ~SkippedByCooldown
        ELSE SkippedByCooldown

(* C38: within one cooldown window the replicas of a Deployment are       *)
(* patched at most once by scale-replicas, also when the action comes      *)
(* through several Pods the Deployment owns: a call that patches the       *)
(* replicas of d1 and succeeds comes at least cooldownSeconds after the    *)
(* last scale-replicas that succeeded through any Pod of d1.               *)
ScaledD1 ==
    /\ Called
    /\ lastExec.action = "scale-replicas"
    /\ lastExec.result.Success
    /\ \E w \in lastExec.result.writes :
           w[1] = "PatchReplicas" /\ w[2] = lastExec.namespace /\ w[3] = "d1"
C38_OneScalePerWindow ==
    ScaledD1 =>
        \A pod \in OwnedPods :
            LET key == <<pod.namespace, pod.name, "scale-replicas">>
            IN  (key # CallKey(lastExec) /\ key \in DOMAIN lastSuccess) =>
                    now - lastSuccess[key] >= PolicyCooldown(lastExec.namespace)

(* C40: dry-run simulates the real call.  When the engine goes from       *)
(* dry-run to real, every action on every resource that gets to its        *)
(* switch has the same success either way on the same cluster: what the    *)
(* dry-run call returns with the answers it got to its reads is what the   *)
(* real call returns with these answers, the cluster accepting the write.  *)
SameCluster(dry, real) ==
    dry.reads # {} =>
        /\ real.reads = dry.reads
        /\ real.got = dry.got
        /\ real.writes = {} => real.apiErr = dry.apiErr
WriteAccepted(real) == real.writes # {} => real.apiErr = ""
C40_DryRunFaithful ==
    [][(config.DryRun /\ ~config'.DryRun) =>
          \A action \in Actions, resource \in Resources :
              \A namespace \in CallNamespaces(resource) :
                  \A dry \in dispatch(action, resource, namespace) :
                      \A real \in dispatch(action, resource, namespace)' :
                          (SameCluster(dry, real) /\ WriteAccepted(real))
                              => (dry.Success <=> real.Success)]_vars

(* C34: the calls of ExecuteAction that run at the same time on one Engine *)
(* never have the table read and written at once, and no two of them for   *)
(* the same namespace, resource and action both get past the cooldown      *)
(* check and succeed.                                                      *)
C34_CooldownTableSerialized ==
    /\ \A g \in Goroutines : goroutines[g].pc # "fatal"
    /\ \A g, h \in Goroutines :
           (/\ g # h
            /\ goroutines[g].pc = "acted"
            /\ goroutines[h].pc = "acted"
            /\ goroutines[g].key = goroutines[h].key) =>
               ~(goroutines[g].result.Success /\ goroutines[h].result.Success)

(* The last call got past the namespace's switch and its cooldown *)
Dispatched ==
    /\ Called
    /\ lastExec.result.Message \notin {"Remediation is disabled for this namespace",
                                       "Action skipped due to cooldown period"}
Rollbacks ==
    /\ Dispatched
    /\ lastExec.action = "rollback-deployment"
    /\ lastExec.resource = DeploymentD1.name
Scales ==
    /\ Dispatched
    /\ lastExec.action = "scale-replicas"
    /\ lastExec.resource = DeploymentD1.name
ReadFailed(result) == result.got = <<>> /\ result.reads # {}
PatchedToFirst(result) ==
    /\ result.writes = {PatchRevision(DeploymentD1, 1)}
    /\ result.Success <=> result.apiErr = ""

(* C25 as the specification has it: rollback-deployment does not succeed   *)
(* and calls nothing when the namespace's autoRollback is off, does not    *)
(* succeed and patches nothing at revision "1" or none, and otherwise      *)
(* patches the revision to 1 once and succeeds exactly if the patch does.  *)
C25_RollbackPatchesOtherwise ==
    Rollbacks =>
        LET result == lastExec.result
        IN  IF ~GetNamespaceConfig(lastExec.namespace).AutoRollbackEnabled
            THEN ~result.Success /\ result.reads = {} /\ result.writes = {}
            ELSE IF ReadFailed(result) THEN TRUE
            ELSE IF result.got = <<>>
            THEN \/ ~result.Success /\ result.writes = {}
                 \/ PatchedToFirst(result)
            ELSE IF result.got \in {<<"">>, <<"1">>}
            THEN ~result.Success /\ result.writes = {}
            ELSE PatchedToFirst(result)

(* C25, amended: rollback-deployment does not succeed and calls nothing    *)
(* when the namespace's autoRollback is off; otherwise in dry-run it       *)
(* succeeds without any call; otherwise it patches nothing when the read   *)
(* of the Deployment fails or the revision is "1" or missing, and in what  *)
(* is left patches the revision to 1 once and succeeds exactly if the      *)
(* patch does.                                                             *)
C25_RollbackWritesOnlyWhenMeaningful ==
    Rollbacks =>
        LET result == lastExec.result
        IN  IF ~GetNamespaceConfig(lastExec.namespace).AutoRollbackEnabled
            THEN ~result.Success /\ result.reads = {} /\ result.writes = {}
            ELSE IF config.DryRun
            THEN result.Success /\ result.reads = {} /\ result.writes = {}
            ELSE IF ReadFailed(result) \/ result.got \in {<<"">>, <<"1">>}
            THEN ~result.Success /\ result.writes = {}
            ELSE PatchedToFirst(result)

C25_Witness ==
    /\ Rollbacks
    /\ lastExec.result.got = <<"2">>
    /\ lastExec.result.Success
    /\ lastExec.result.writes = {PatchRevision(DeploymentD1, 1)}

(* The replicas the specification has a Deployment of c scaled to *)
ScaledFrom(c) ==
    LET half == c \div 2
        more == IF half > 2 THEN half ELSE 2
    IN  IF c + more < 10 THEN c + more ELSE 10
ReplicasGot(result) == IF result.got = <<None>> THEN 1 ELSE result.got[1]
ReplicaPatches(result) == {w \in result.writes : w[1] = "PatchReplicas"}

C27_NotFoundIsNoError ==
    (/\ lastExec # NoCall
     /\ lastExec.action = "restart-pod"
     /\ IsDelete(lastExec.result)
     /\ lastExec.result.apiErr = "NotFound")
    => ~lastExec.result.err

----------------------------------------------------------------------------
(* Properties of the breaker *)

Executes == cbEvent'.op = "Execute"
Accounts == cbEvent'.op = "afterRequest"
AsksState == cbEvent'.op = "State"

(* The number of consecutive failures at which the breaker's policy trips  *)
TripAt(b) == IF b.readyToTrip = 0 THEN DefaultTripAbove + 1 ELSE b.readyToTrip

(* The call being accounted was admitted in a generation that is over *)
Stale ==
    \/ cbEvent'.before # cb.generation
    \/ cb.state = StateClosed /\ cb.expiry # None /\ cb.expiry < clock

Running(cs) == {c \in Callers : cs[c].pc = "running"}
RunningIn(cs, b) == {c \in Running(cs) : cs[c].generation = b.generation}

C8_OpenRejectsWithoutCounting ==
    [][Executes =>
          /\ (cb.state = StateOpen /\ clock < cb.expiry) =>
                 /\ ~cbEvent'.invoked
                 /\ cbEvent'.err = ErrCircuitBreakerOpen
                 /\ cb.fallback \/ cbEvent'.returned = ErrCircuitBreakerOpen
                 /\ cb'.counts = cb.counts
                 /\ cb'.state = StateOpen
                 /\ calls' = calls
          /\ cbEvent'.invoked => cb'.state # StateOpen]_vars

C8_Witness ==
    /\ cbEvent.op = "Execute"
    /\ ~cbEvent.invoked
    /\ cbEvent.returned = ErrCircuitBreakerOpen
    /\ cb.state = StateOpen
    /\ clock < cb.expiry
    /\ Running(calls) # {}

(* C9, as claimed: the first Execute or State call on an Open breaker at   *)
(* any time now >= expiry, now = expiry included, finds it HalfOpen, and   *)
(* the Execute is admitted.                                                *)
C9_HalfOpenAtExpiry ==
    [][((Executes \/ AsksState) /\ cb.state = StateOpen /\ clock >= cb.expiry) =>
          /\ cb'.state = StateHalfOpen
          /\ Executes => cbEvent'.invoked]_vars

(* C9, amended: the breaker enters Open with expiry = now + timeout; an    *)
(* Execute or State call on an Open breaker at now <= expiry leaves it     *)
(* Open (the Execute is rejected with ErrCircuitBreakerOpen), and the      *)
(* first one at now > expiry finds it HalfOpen, the Execute being          *)
(* admitted.                                                               *)
C9_HalfOpenAfterExpiry ==
    [][/\ (cb.state # StateOpen /\ cb'.state = StateOpen) =>
              cb'.expiry = clock + cb.timeout
       /\ ((Executes \/ AsksState) /\ cb.state = StateOpen /\ clock > cb.expiry) =>
              /\ cb'.state = StateHalfOpen
              /\ Executes => cbEvent'.invoked
       /\ ((Executes \/ AsksState) /\ cb.state = StateOpen /\ clock <= cb.expiry) =>
              /\ cb'.state = StateOpen
              /\ Executes => /\ ~cbEvent'.invoked
                             /\ cbEvent'.err = ErrCircuitBreakerOpen
       /\ (Executes /\ cb.state = StateHalfOpen /\ admitted = 0) =>
              cbEvent'.invoked]_vars

C9_Witness ==
    /\ cbEvent.op = "State"
    /\ cbEvent.returned = StateHalfOpen
    /\ cb.generation = 3
    /\ admitted = 0

(* C10, as claimed: while the breaker is HalfOpen at most maxRequests      *)
(* calls are admitted and at most maxRequests operations are running, and  *)
(* every further Execute of that period returns ErrTooManyRequests without *)
(* invoking its operation.                                                 *)
C10_HalfOpenAtMostMaxRequests ==
    [][/\ cb'.state = StateHalfOpen =>
              /\ admitted' <= cb.maxRequests
              /\ Cardinality(Running(calls')) <= cb.maxRequests
       /\ (Executes /\ cb.state = StateHalfOpen /\ admitted >= cb.maxRequests) =>
              /\ ~cbEvent'.invoked
              /\ cbEvent'.returned = ErrTooManyRequests]_vars

(* C10, amended: while the breaker is HalfOpen at most maxRequests calls   *)
(* are admitted in that period, so at most maxRequests operations admitted *)
(* in it are running; every further Execute of the period is turned away   *)
(* with ErrTooManyRequests, returned as it is or through the fallback,     *)
(* without invoking its operation.                                         *)
C10_HalfOpenAdmitsAtMostMaxRequests ==
    [][/\ cb'.state = StateHalfOpen =>
              /\ admitted' <= cb.maxRequests
              /\ Cardinality(RunningIn(calls', cb')) <= cb.maxRequests
       /\ (Executes /\ cb.state = StateHalfOpen /\ admitted >= cb.maxRequests) =>
              /\ ~cbEvent'.invoked
              /\ cbEvent'.err = ErrTooManyRequests
              /\ cb.fallback \/ cbEvent'.returned = ErrTooManyRequests
              /\ cb' = cb
              /\ calls' = calls]_vars

C10_Witness ==
    /\ cbEvent.op = "Execute"
    /\ ~cbEvent.invoked
    /\ cbEvent.err = ErrTooManyRequests
    /\ cb.state = StateHalfOpen
    /\ cb.maxRequests = 2
    /\ admitted = 2
    /\ Cardinality(RunningIn(calls, cb)) = 1

(* The call being accounted was admitted in the HalfOpen period the        *)
(* breaker is in                                                           *)
AccountsHalfOpen ==
    /\ Accounts
    /\ cb.state = StateHalfOpen
    /\ cbEvent'.before = cb.generation

(* C11: in HalfOpen, the success that brings the successes in a row of the *)
(* calls admitted in that period to maxRequests closes the breaker, with   *)
(* a new generation and every counter at 0; a success below that leaves it *)
(* HalfOpen with one more success counted.  With maxRequests = 1 the first *)
(* success closes it.                                                      *)
C11_HalfOpenClosesAfterMaxRequests ==
    [][(AccountsHalfOpen /\ cbEvent'.returned = ErrNil) =>
          IF cb.counts.ConsecutiveSuccesses + 1 >= cb.maxRequests
          THEN /\ cb'.state = StateClosed
               /\ cb'.counts = ZeroCounts
               /\ cb'.generation = cb.generation + 1
          ELSE /\ cb'.state = StateHalfOpen
               /\ cb'.counts.ConsecutiveSuccesses
                      = cb.counts.ConsecutiveSuccesses + 1]_vars

C11_Witness ==
    /\ cbEvent.op = "afterRequest"
    /\ cbEvent.returned = ErrNil
    /\ cbEvent.before = 3
    /\ cb.maxRequests = 2
    /\ cb.state = StateClosed
    /\ cb.generation = 4
    /\ cb.counts = ZeroCounts

(* C12: in HalfOpen, a failure of a call admitted in that period puts the  *)
(* breaker back to Open with expiry = now + timeout, whatever its          *)
(* readyToTrip policy is.                                                  *)
C12_HalfOpenFailureReopens ==
    [][(AccountsHalfOpen /\ cbEvent'.returned # ErrNil) =>
          /\ cb'.state = StateOpen
          /\ cb'.expiry = clock + cb.timeout]_vars

(* C37: a breaker of the engine never gets stuck rejecting.  In every      *)
(* state with no call in flight there is a time, now or later, at which    *)
(* Execute is admitted: it does not return ErrCircuitBreakerOpen or        *)
(* ErrTooManyRequests for ever.  With no call in flight the breaker        *)
(* changes by currentState only, so what Execute returns at a later time   *)
(* is what beforeRequest returns for the breaker as it is.                 *)
NoCallInFlight == \A c \in Callers : calls[c].pc = "idle"
Later == clock .. (MaxClock + cb.timeout + 1)
C37_NeverStuckRejecting ==
    NoCallInFlight => \E t \in Later : beforeRequest(cb, t).err = ErrNil

(* C31: when the operation panics, Execute accounts the call once, as it   *)
(* accounts an operation that returns an error: one more failure in the    *)
(* call's generation, or the trip to Open that failure brings; then the    *)
(* panic goes on to the caller, and the call is over.                      *)
C31_PanicIsOneFailure ==
    [][(Accounts /\ cbEvent'.returned = "panic") =>
          /\ cb' = afterRequest(cb, cbEvent'.before, isSuccessful("error"), clock)
          /\ calls'[cbEvent'.caller] = Idle
          /\ ~Stale =>
                \/ /\ cb'.state = cb.state
                   /\ cb'.generation = cb.generation
                   /\ cb'.counts =
                          [cb.counts EXCEPT !.TotalFailures = @ + 1,
                                            !.ConsecutiveFailures = @ + 1,
                                            !.ConsecutiveSuccesses = 0]
                \/ /\ cb'.state = StateOpen
                   /\ cb'.generation = cb.generation + 1
                   /\ cb'.counts = ZeroCounts]_vars

C31_Witness ==
    /\ cbEvent.op = "afterRequest"
    /\ cbEvent.returned = "panic"
    /\ cbEvent.before = cb.generation
    /\ cb.counts.TotalFailures = 2
    /\ cb.counts.ConsecutiveFailures = 1

(* The breaker's time has run out: the next call finds a new generation *)
Expired(b, t) ==
    /\ b.state \in {StateClosed, StateOpen}
    /\ b.expiry # None
    /\ b.expiry < t

(* C29: every step that changes the breaker's state, and every call that   *)
(* finds a Closed breaker whose interval has expired, starts a new         *)
(* generation: generation goes up by exactly 1 and the five counters are   *)
(* zeroed (an Execute then counts the request it admits); no step takes    *)
(* generation down, and the counters are zeroed at no other step.          *)
C29_GenerationPerTransition ==
    [][/\ cb'.generation >= cb.generation
       /\ (\/ cb'.state # cb.state
           \/ cbEvent'.op # "none" /\ cb.state = StateClosed /\ Expired(cb, clock)
           \/ cb'.generation # cb.generation) =>
              /\ cb'.generation = cb.generation + 1
              /\ cb'.counts =
                     IF Executes /\ cbEvent'.invoked
                     THEN [ZeroCounts EXCEPT !.Requests = 1]
                     ELSE ZeroCounts]_vars

C29_Witness ==
    /\ cbEvent.op = "State"
    /\ cb.state = StateHalfOpen
    /\ cb.generation = 3
    /\ cb.counts = ZeroCounts

(* C30: the return of a call admitted in a generation that is over is      *)
(* discarded: it counts nothing, and the breaker is left as any call at    *)
(* that time finds it, in the generation that time has brought and in no   *)
(* other state.                                                            *)
C30_StaleReturnDiscarded ==
    [][(Accounts /\ Stale) =>
          IF Expired(cb, clock)
          THEN /\ cb'.generation = cb.generation + 1
               /\ cb'.counts = ZeroCounts
               /\ cb'.state = IF cb.state = StateOpen THEN StateHalfOpen
                                                     ELSE StateClosed
          ELSE cb' = cb]_vars

C30_Witness ==
    /\ cbEvent.op = "afterRequest"
    /\ cbEvent.returned = "error"
    /\ cbEvent.before < cb.generation
    /\ cb.state = StateHalfOpen
    /\ cb.counts = ZeroCounts

----------------------------------------------------------------------------
(* Properties of the rate limiter *)

(* The bucket the table has for an action *)
BucketOf(a) == buckets[arl.limiter[a]]

(* C13: for every action and every window, the calls that returned true in *)
(* the window are at most capacity + floor(W * refillRate), W being the    *)
(* length of the window in seconds; with refillRate = 0 the first capacity *)
(* calls return true and every later one false.                            *)
C13_AdmittedWithinRate ==
    \A a \in AllowActions :
        LET at == rlLog[a].allowed
        IN  /\ \A i, j \in 1 .. Len(at) :
                   i <= j =>
                       j - i + 1 <= arl.defaultCap
                           + ((at[j] - at[i]) * arl.defaultRate) \div TicksPerSecond
            /\ arl.defaultRate = 0 =>
                   /\ Len(at) <= arl.defaultCap
                   /\ rlLog[a].denied > 0 => Len(at) = arl.defaultCap

(* C14: every bucket has 0 <= tokens <= capacity at all times, and a       *)
(* limiter of capacity 0 never returns true, whatever its rate and however *)
(* much time has passed.                                                   *)
C14_TokensWithinCapacity ==
    /\ \A l \in 1 .. Len(buckets) :
           /\ 0 <= buckets[l].tokens
           /\ buckets[l].tokens <= buckets[l].capacity
    /\ arl.defaultCap = 0 => \A a \in AllowActions : rlLog[a].allowed = <<>>

C14_Witness ==
    /\ arl.defaultCap = 0
    /\ arl.defaultRate = 2
    /\ "restart-pod" \in DOMAIN arl.limiter
    /\ BucketOf("restart-pod").lastRefill > 0
    /\ rlLog["restart-pod"].denied = 2

(* C15: whatever the interleaving of the calls, one bucket is made for an  *)
(* action and every caller uses it; and as long as nothing was refilled    *)
(* (no time has passed, or the rate is 0), of N calls that have returned   *)
(* min(N, capacity) returned true, each for one token of the bucket.       *)
C15_OneBucketNoTokenLost ==
    /\ Len(buckets) = Cardinality(DOMAIN arl.limiter)
    /\ \A g \in Allowers :
           allowers[g].pc = "allow" =>
               allowers[g].limiter = arl.limiter[allowers[g].action]
    /\ \A a \in DOMAIN arl.limiter :
           (rlClock = 0 \/ arl.defaultRate = 0) =>
               /\ Len(rlLog[a].allowed)
                      = Min(Len(rlLog[a].allowed) + rlLog[a].denied, arl.defaultCap)
               /\ Len(rlLog[a].allowed) + BucketOf(a).tokens = arl.defaultCap

C15_Witness ==
    /\ rlClock = 0
    /\ arl.defaultCap = 1
    /\ Len(buckets) = 1
    /\ Len(rlLog["restart-pod"].allowed) = 1
    /\ rlLog["restart-pod"].denied = 1

(* C32: a call of Allow on an emptied bucket of rate r >= 1 and capacity   *)
(* >= 1 returns true if at least 1/r seconds have passed since lastRefill  *)
(* and false if not; a call that returns false leaves the bucket as it     *)
(* was, lastRefill included; and a call that the wait has given exactly    *)
(* one token leaves the bucket empty with lastRefill at the time of the    *)
(* call, so that the next call at once returns false.                      *)
C32_EmptiedBucketAdmitsAfterWait ==
    [][\A g \in Allowers :
          (allowers[g].pc = "allow" /\ allowers'[g].pc = "idle") =>
              LET a == allowers[g].action
                  before == buckets[allowers[g].limiter]
                  after == buckets'[allowers[g].limiter]
                  waited == (rlClock - before.lastRefill) * before.refillRate
                  returnedTrue == rlLog'[a].allowed # rlLog[a].allowed
              IN  (before.tokens = 0 /\ before.refillRate >= 1
                                     /\ before.capacity >= 1) =>
                      /\ returnedTrue <=> waited >= TicksPerSecond
                      /\ ~returnedTrue => after = before
                      /\ (waited >= TicksPerSecond /\ waited < 2 * TicksPerSecond) =>
                             /\ after.tokens = 0
                             /\ after.lastRefill = rlClock]_vars

C32_Witness ==
    /\ arl.defaultRate = 1
    /\ arl.defaultCap = 1
    /\ \E a \in AllowActions :
           /\ rlLog[a].allowed = <<0, 2>>
           /\ rlLog[a].denied = 2

----------------------------------------------------------------------------
(* Properties of the detector and of the policies of the namespaces *)

InNamespace(issues, namespace) ==
    SelectSeq(issues, LAMBDA issue : issue.Namespace = namespace)

(* What DetectIssues returns about a namespace, for each way its List      *)
(* calls may fail                                                          *)
IssuesIn(namespace) ==
    [failed \in ListFailures |->
        InNamespace(detectIssues(detector, cluster, failed, detNow), namespace)]

(* What ExecuteAction may return, with the cluster calls made, and the     *)
(* cooldowns it leaves                                                     *)
ExecuteEffects(action, resource, namespace) ==
    {<<result,
       IF shouldRecord(result)
       THEN recordCooldown(<<namespace, getResourceName(resource), action>>)
       ELSE cooldowns>>
     : result \in executeOutcomes(action, resource, namespace)}

SameElsewhere(entries, others, namespace) ==
    \A n \in Namespaces \ {namespace} :
        /\ n \in DOMAIN entries <=> n \in DOMAIN others
        /\ n \in DOMAIN entries => entries[n] = others[n]

(* A step to a configuration that differs in the entries of the namespace  *)
(* and in nothing else, the cluster, the clocks and the cooldowns staying  *)
PolicyChangesIn(namespace) ==
    /\ <<config, detector>>' # <<config, detector>>
    /\ [config EXCEPT !.Namespaces = EmptyMap] = [config' EXCEPT !.Namespaces = EmptyMap]
    /\ [detector EXCEPT !.config.Namespaces = EmptyMap]
           = [detector' EXCEPT !.config.Namespaces = EmptyMap]
    /\ SameElsewhere(config.Namespaces, config'.Namespaces, namespace)
    /\ SameElsewhere(detector.config.Namespaces, detector'.config.Namespaces, namespace)
    /\ UNCHANGED <<now, cooldowns, cluster, detNow>>

(* C16: namespace isolation.  Of two configurations that differ only in    *)
(* the policy entries of namespace X, over the same cluster and the same   *)
(* cooldowns, DetectIssues returns the same issues for the resources of    *)
(* every other namespace Y, and every ExecuteAction on a resource of Y     *)
(* returns the same Result, makes the same cluster calls and leaves the    *)
(* same cooldowns.                                                         *)
C16_NamespaceIsolation ==
    [][\A X \in Namespaces :
          PolicyChangesIn(X) =>
              \A Y \in Namespaces \ {X} :
                  /\ IssuesIn(Y)' = IssuesIn(Y)
                  /\ \A action \in ActionNames, resource \in Resources :
                         Y \in CallNamespaces(resource) =>
                             ExecuteEffects(action, resource, Y)'
                                 = ExecuteEffects(action, resource, Y)]_vars

(* The policy of "prod" has changed, and with it what is detected there,   *)
(* while "dev" has issues and a cooldown running                           *)
C16_Witness ==
    /\ policyChange.namespace = "prod"
    /\ config.Namespaces # policyChange.config.Namespaces
    /\ InNamespace(detectIssues(detector, cluster, {}, detNow), "prod")
           # InNamespace(detectIssues(policyChange.detector, cluster, {}, detNow), "prod")
    /\ InNamespace(detectIssues(detector, cluster, {}, detNow), "dev") # <<>>
    /\ isInCooldown(<<"dev", "p1", "scale-replicas">>,
                    GetNamespaceConfig("dev").CooldownSeconds)

(* C17: policy resolution is one lookup with no partial merge.  A          *)
(* namespace that has an entry gets it as it is, zero values included; a   *)
(* namespace that has none gets the global thresholds, check durations of  *)
(* 5, 10, 5 and 5 minutes for crash loop, deployment, CPU and memory, and  *)
(* every dimension enabled.                                                *)
C17_SingleLookupNoMerge ==
    \A ns \in Namespaces :
        /\ IF ns \in DOMAIN config.Namespaces
           THEN GetNamespaceConfig(ns) = config.Namespaces[ns]
           ELSE GetNamespaceConfig(ns) =
                    [Enabled |-> config.Enabled,
                     AutoRollbackEnabled |-> config.AutoRollbackEnabled,
                     AutoScaleEnabled |-> config.AutoScaleEnabled,
                     CooldownSeconds |-> config.CooldownSeconds]
        /\ LET policy == DetectorGetNamespaceConfig(detector, ns)
               global == detector.config
           IN  IF ns \in DOMAIN global.Namespaces
               THEN policy = global.Namespaces[ns]
               ELSE /\ policy.CrashLoop =
                           [RestartLimit |-> global.CrashLoopThreshold,
                            CheckDuration |-> FiveMinutes, Enabled |-> TRUE]
                    /\ policy.Deployment =
                           [FailureThreshold |-> global.FailedDeploymentThreshold,
                            CheckDuration |-> TenMinutes, Enabled |-> TRUE]
                    /\ policy.CPU =
                           [ThresholdPercent |-> global.CPUThresholdPercent,
                            CheckDuration |-> FiveMinutes, Enabled |-> TRUE]
                    /\ policy.Memory =
                           [ThresholdPercent |-> global.MemoryThresholdPercent,
                            CheckDuration |-> FiveMinutes,
                            OOMKillThreshold |-> global.OOMKillThreshold,
                            Enabled |-> TRUE]

(* "dev" has an entry that leaves enabled out and "prod" has none: the     *)
(* engine has refused to act in "dev" though remediation is enabled        *)
(* globally, and the detector has reported the pod of "prod" under the     *)
(* global restart limit and nothing in "dev"                               *)
C17_Witness ==
    /\ "dev" \in DOMAIN config.Namespaces
    /\ "dev" \in DOMAIN detector.config.Namespaces
    /\ "prod" \notin DOMAIN detector.config.Namespaces
    /\ config.Enabled /\ ~config.Namespaces["dev"].Enabled
    /\ ~detector.config.Namespaces["dev"].CrashLoop.Enabled
    /\ lastExec.namespace = "dev"
    /\ lastExec.result.Message = "Remediation is disabled for this namespace"
    /\ detected.failed = {} /\ detected.at # None
    /\ InNamespace(detected.issues, "dev") = <<>>
    /\ \E k \in DOMAIN detected.issues :
           /\ detected.issues[k].RuleName = "crash-loop-backoff"
           /\ detected.issues[k].Namespace = "prod"
           /\ detected.issues[k].Description[2] = <<DefaultCrashLoopThreshold>>

(* C21: a rule whose evaluation fails, its List call returning an error,   *)
(* does not abort detection.  DetectIssues evaluates every other enabled   *)
(* rule, returns the issues of the rules that succeeded, those and no      *)
(* others, and returns a nil error.                                        *)
C21_RuleFailureDoesNotAbort ==
    [][detected' # detected =>
          /\ detected'.err = ErrNil
          /\ \A i \in DOMAIN detector.rules :
                 LET rule == detector.rules[i]
                     returned == SelectSeq(detected'.issues,
                                           LAMBDA issue : issue.RuleName = rule.Name)
                 IN  IF rule.Enabled /\ rule.Name \notin detected'.failed
                     THEN /\ rule.Name \in detected'.evaluated
                          /\ returned = evaluateRule(detector, rule, cluster, detNow)
                     ELSE returned = <<>>]_vars

(* The first rule's List call has failed and the last rule has reported    *)
(* the container of "dev" that was killed for memory                       *)
C21_Witness ==
    /\ detected.failed = {"crash-loop-backoff"}
    /\ detected.err = ErrNil
    /\ \E k \in DOMAIN detected.issues :
           /\ detected.issues[k].RuleName = "oom-kill-detected"
           /\ detected.issues[k].Namespace = "dev"

(* The issues a rule has returned for a pod or a deployment *)
IssuesOf(name, kind, object) ==
    SelectSeq(detected.issues,
              LAMBDA issue : /\ issue.RuleName = name
                             /\ issue.Kind = kind
                             /\ issue.Namespace = object.Namespace
                             /\ issue.Name = object.Name)

CrashLoopTriggers(pod, containerStatus, t) ==
    LET policy == DetectorGetNamespaceConfig(detector, pod.Namespace).CrashLoop
        last == containerStatus.LastTerminationState.Terminated
    IN  /\ policy.Enabled
        /\ ~containerStatus.State.Waiting.nil
        /\ containerStatus.State.Waiting.Reason = "CrashLoopBackOff"
        /\ containerStatus.RestartCount >= policy.RestartLimit
        /\ ~last.nil
        /\ t - last.FinishedAt >= policy.CheckDuration

(* C18: the crash-loop-backoff rule returns an issue, with the action      *)
(* restart-pod, for a container of a pod exactly when crash-loop detection *)
(* is enabled for the pod's namespace, the container waits in              *)
(* CrashLoopBackOff, its restart count is at least the namespace's restart *)
(* limit and its last termination finished at least checkDuration ago; a   *)
(* container with no last termination gets none.                           *)
C18_CrashLoopIssueExactly ==
    "crash-loop-backoff" \in detected.evaluated =>
        \A i \in DOMAIN cluster.pods :
            LET pod == cluster.pods[i]
                statuses == pod.Status.ContainerStatuses
                issues == IssuesOf("crash-loop-backoff", "Pod", pod)
            IN  /\ Len(issues) = Cardinality({j \in DOMAIN statuses :
                                     CrashLoopTriggers(pod, statuses[j], detected.at)})
                /\ \A k \in DOMAIN issues : issues[k].Actions = <<"restart-pod">>

(* The pod of "prod" is reported, its last termination being just as old   *)
(* as the namespace's check duration, which is not zero                    *)
C18_Witness ==
    /\ "crash-loop-backoff" \in detected.evaluated
    /\ \E i \in DOMAIN cluster.pods :
           LET pod == cluster.pods[i]
               containerStatus == pod.Status.ContainerStatuses[1]
               policy == DetectorGetNamespaceConfig(detector, pod.Namespace).CrashLoop
           IN  /\ pod.Namespace = "prod"
               /\ IssuesOf("crash-loop-backoff", "Pod", pod) # <<>>
               /\ policy.CheckDuration > 0
               /\ detected.at - containerStatus.LastTerminationState.Terminated.FinishedAt
                      = policy.CheckDuration

(* C19: the failed-deployment rule returns an issue, with the action       *)
(* rollback-deployment, for a deployment whenever deployment detection is  *)
(* enabled for its namespace and the deployment has a condition of type    *)
(* Progressing, status False and reason ProgressDeadlineExceeded that is   *)
(* at least as old as the namespace's deployment checkDuration.            *)
C19_FailedDeploymentEmits ==
    "failed-deployment" \in detected.evaluated =>
        \A i \in DOMAIN cluster.deployments :
            LET deployment == cluster.deployments[i]
                conditions == deployment.Status.Conditions
                policy == DetectorGetNamespaceConfig(detector, deployment.Namespace).Deployment
                issues == IssuesOf("failed-deployment", "Deployment", deployment)
            IN  (/\ policy.Enabled
                 /\ \E j \in DOMAIN conditions :
                        /\ conditions[j].Type = "Progressing"
                        /\ conditions[j].Status = "False"
                        /\ conditions[j].Reason = "ProgressDeadlineExceeded"
                        /\ detected.at - conditions[j].LastTransitionTime
                               >= policy.CheckDuration)
                => \E k \in DOMAIN issues : issues[k].Actions = <<"rollback-deployment">>

OOMKillTriggers(pod, containerStatus) ==
    LET policy == DetectorGetNamespaceConfig(detector, pod.Namespace).Memory
    IN  /\ policy.Enabled
        /\ ~containerStatus.State.Terminated.nil
        /\ containerStatus.State.Terminated.Reason = "OOMKilled"
        /\ containerStatus.RestartCount >= policy.OOMKillThreshold

(* C20: the oom-kill-detected rule returns an issue for a container of a   *)
(* pod exactly when memory detection is enabled for the namespace, the     *)
(* container's current state is terminated with reason OOMKilled and its   *)
(* restart count is at least the namespace's oomKillThreshold, however     *)
(* long ago that was; the issue's actions are restart-pod and then         *)
(* scale-replicas.                                                         *)
C20_OOMKillIssueExactly ==
    "oom-kill-detected" \in detected.evaluated =>
        \A i \in DOMAIN cluster.pods :
            LET pod == cluster.pods[i]
                statuses == pod.Status.ContainerStatuses
                issues == IssuesOf("oom-kill-detected", "Pod", pod)
            IN  /\ Len(issues) = Cardinality({j \in DOMAIN statuses :
                                     OOMKillTriggers(pod, statuses[j])})
                /\ \A k \in DOMAIN issues :
                       issues[k].Actions = <<"restart-pod", "scale-replicas">>

(* The pod of "prod" is reported for an OOM kill though the namespace has  *)
(* a check duration for memory and the container no last termination       *)
C20_Witness ==
    /\ "oom-kill-detected" \in detected.evaluated
    /\ \E i \in DOMAIN cluster.pods :
           LET pod == cluster.pods[i]
               containerStatus == pod.Status.ContainerStatuses[1]
               policy == DetectorGetNamespaceConfig(detector, pod.Namespace).Memory
           IN  /\ pod.Namespace = "prod"
               /\ IssuesOf("oom-kill-detected", "Pod", pod) # <<>>
               /\ policy.CheckDuration > 0
               /\ containerStatus.LastTerminationState.Terminated.nil

----------------------------------------------------------------------------
(* Properties of the controller *)

Attempts(log) == SelectSeq(log, LAMBDA e : e.event = "ExecuteAction")
Notifications(log, type) ==
    SelectSeq(log, LAMBDA e : e.event = "notification" /\ e.type = type)
CycleFailed ==
    \/ detected.failed # {}
    \/ \E i \in DOMAIN ctl.log :
           \/ ctl.log[i].event = "ExecuteAction" /\ ctl.log[i].status # "success"
           \/ ctl.log[i].event = "notification" /\ ~ctl.log[i].sent

Deletes(e) == e.event = "ExecuteAction" /\ \E w \in e.writes : w[1] = "DeletePod"
Scales4(e) ==
    e.event = "ExecuteAction" /\ e.writes = {<<"PatchReplicas", "dev", "d1", 4>>}
PatchesReplicas(e) ==
    e.event = "ExecuteAction" /\ \E w \in e.writes : w[1] = "PatchReplicas"

(* What processIssue has done is the issue's actions in the order of the   *)
(* list, one call each, up to the action it is at                          *)
InListOrder(c) ==
    c.issue # EmptyMap =>
        LET done == Attempts(c.log)
            all == c.issue.Actions
        IN  /\ Len(done) <= Len(all)
            /\ \A i \in DOMAIN done : done[i].action = all[i]
            /\ c.actions = SubSeq(all, Len(done) + 1, Len(all))

(* C22: processIssue executes the actions of an issue in the order of the  *)
(* list, one after the other; whatever an action returns, failure and      *)
(* error included, the controller goes on to the next action of the issue  *)
(* and after the last one to the next issue of the cycle; so the delete of *)
(* an OOMKilled pod comes before the patch of its Deployment's replicas.   *)
C22_ActionsInListOrder ==
    [][/\ InListOrder(ctl')
       /\ (lastExec # NoCall /\ lastExec' = NoCall) =>
              /\ ctl'.actions = Tail(ctl.actions)
              /\ ctl'.issues = ctl.issues
              /\ ctl'.pc = IF Tail(ctl.actions) # <<>> THEN "action"
                           ELSE IF ctl.issues # <<>> THEN "issue" ELSE "select"
       /\ \A i, j \in DOMAIN ctl'.log :
              Deletes(ctl'.log[i]) /\ PatchesReplicas(ctl'.log[j]) => i < j]_vars

C22_Witness ==
    /\ ctl.issue # EmptyMap
    /\ ctl.issue.RuleName = "oom-kill-detected"
    /\ LET done == Attempts(ctl.log)
       IN  /\ Len(done) = 2
           /\ Deletes(done[1])
           /\ done[1].status = "error"
           /\ Scales4(done[2])
           /\ done[2].status = "success"

(* C23: with a notifier, processIssue hands it one notification of the     *)
(* issue and, right after every call of ExecuteAction, one notification of *)
(* the remediation with the call's success flag, whatever the call         *)
(* returned.                                                               *)
C23_EveryAttemptNotified ==
    (ctl.slack /\ ctl.issue # EmptyMap) =>
        /\ Len(Notifications(ctl.log, "issue")) = 1
        /\ \A i \in DOMAIN ctl.log :
               ctl.log[i].event = "ExecuteAction" =>
                   /\ i + 1 \in DOMAIN ctl.log
                   /\ ctl.log[i + 1].event = "notification"
                   /\ ctl.log[i + 1].type = "remediation"
                   /\ ctl.log[i + 1].success = (ctl.log[i].status = "success")

(* C33: a panic raised in a cycle does not end Run: the controller is in   *)
(* its loop, waiting for the next tick or in a cycle, unless Run has       *)
(* returned at the cancellation of its context.                            *)
C33_PanicCaught == ctl.pc \in {"select", "issue", "action", "returned"}

(* C35: the controller does one thing at a time.  A cycle starts only from *)
(* Run's select, when the cycle before has processed all its issues and    *)
(* actions and its last ExecuteAction has returned; and the cleanup        *)
(* removes cooldown entries only from Run's select, never within a cycle.  *)
CycleStarts ==
    \/ detected' # detected
    \/ Len(ctl'.issues) > Len(ctl.issues)
Sweeps ==
    \E key \in DOMAIN cooldowns : key \notin DOMAIN cooldowns'
BetweenCycles ==
    /\ ctl.pc = "select"
    /\ ctl.issues = <<>>
    /\ ctl.actions = <<>>
    /\ lastExec = NoCall
C39_OneDeletePerPodAndCycle == Len(ctl.deletes) <= 1

(* C39, amended: in one cycle at most one delete of a pod succeeds.  After *)
(* the restart-pod that succeeded, every further restart-pod of the cycle  *)
(* for that pod is skipped by its cooldown and issues no delete; a         *)
(* restart-pod whose delete failed records no cooldown, and the next one   *)
(* of the cycle issues a delete again.                                     *)
C39_NoDeleteAfterSuccess ==
    \A i \in DOMAIN ctl.deletes : ctl.deletes[i] => i = Len(ctl.deletes)
(* the pod was deleted for its first issue, and the restart-pod of its     *)
(* second issue was skipped                                                *)
C39_Witness ==
    /\ ctl.deletes = <<TRUE>>
    /\ ctl.issue.RuleName = "oom-kill-detected"
    /\ \E i \in DOMAIN ctl.log :
           /\ ctl.log[i].event = "ExecuteAction"
           /\ ctl.log[i].action = "restart-pod"
           /\ ctl.log[i].status = "failed"
           /\ ctl.log[i].writes = {}

(* C24: Run returns only from its select, with its context cancelled, and  *)
(* returns nil, whatever has failed in the cycles before; and once the     *)
(* context is cancelled Run eventually returns.                            *)
C24_RunReturnsAtCancelOnly ==
    /\ [][ctl'.pc = "returned" /\ ctl.pc # "returned" =>
              ctl.pc = "select" /\ ctl.cancelled /\ ctl'.err = ErrNil]_vars
    /\ (ctl.cancelled ~> ctl.pc = "returned")

C24_Witness ==
    /\ ctl.pc = "returned"
    /\ ctl.err = ErrNil
    /\ CycleFailed

====
